---- MODULE Spec2Model ----
(***************************************************************************)
(* Voice_Agent_Twilio: the per-call turn pipeline, the conversation store  *)
(* and the structured event log, as implemented twice in the repository:   *)
(*   backend/main.py            (service = "backend")                      *)
(*   voicecallendpoint/main.py  (service = "voicecallendpoint")            *)
(*                                                                         *)
(* Every handler is an `async def` without any `await`: the event loop     *)
(* runs it from its first line to its return, so one request is one        *)
(* atomic step.  The outcomes of the external collaborators (completion    *)
(* service, gTTS/pydub, the file system) are inputs of the step.           *)
(*                                                                         *)
(* Texts are sequences of characters.  A literal of the source that no     *)
(* operation of the source inspects is written as a one-element sequence.  *)
(***************************************************************************)
EXTENDS Integers, Sequences, FiniteSets, TLC

VARIABLES
    service,        \* which of the two entry points this process runs
    conversations,  \* conversations = {}  : call_sid -> list of messages
    logs,           \* json_logger.logs    : the in-memory event list
    log_file,       \* content of logs/app_logs.json
    audio_files,    \* files under AUDIO_DIR/output
    served,         \* number of requests handled so far
    request,        \* the request handled last
    before,         \* conversations as they were when that request arrived
    logs_before,    \* Len(logs) when that request arrived
    result,         \* what the handler of that request did and returned
    tasks,          \* the requests that arrived, each with its handler's position
    running,        \* the task the event loop is running, 0 when it is idle
    TWILIO_CREDENTIALS,  \* the dict of that name (twilio_credentials)
    loaded,         \* what load_existing_logs read when this process started
    twin            \* the other entry point, given the same voice requests

vars == <<service, conversations, logs, log_file, audio_files, served,
          request, before, logs_before, result, tasks, running,
          TWILIO_CREDENTIALS, loaded, twin>>

\* Python's None where a string is expected, and where a path or a URL is
None == "None"
NoPath == << >>

\* ------------------------------------------------------------------ bounds

MaxRequests == 2
MaxTurns == 6
MaxCommits == 11
MaxTasks == 2
MaxChats == 3
MaxRunSteps == 5
MaxCredentialRequests == 3
MaxEviction == 8

\* --------------------------------------------------------------- constants

SYSTEM_PROMPT == <<"You are a helpful AI assistant. Keep responses concise.">>
CONVERSATION_HISTORY_LIMIT == 10
VCE_HISTORY_LIMIT == 10

SAY_HELLO == <<"Hello! Please speak.">>
SAY_NO_SPEECH == <<"I didn't hear anything. Please speak again.">>
SAY_STT_FAILURE == <<"I'm having trouble understanding. Please try again.">>
TIMEOUT_APOLOGY == <<"I apologize, but the request timed out. Please try again.">>
ERROR_APOLOGY_PREFIX == <<"I apologize, but I encountered an error: ">>
TIMEOUT_ERROR_PREFIX == <<"LLM request timed out: ">>
VCE_ERROR_PREFIX == <<"Error: ">>

STT_SENTINELS == { <<>>, <<"e","r","r","o","r">>, <<"f","a","i","l","e","d">>,
                   <<"t","i","m","e","o","u","t">> }

\* a duration computed as (datetime.now() - start).total_seconds()
SECONDS == "float"

\* ------------------------------------------------------------ str methods

Whitespace == {" ", "\t", "\n", "\r"}

UpperCase == <<"A","B","C","D","E","F","G","H","I","J","K","L","M",
               "N","O","P","Q","R","S","T","U","V","W","X","Y","Z">>
LowerCase == <<"a","b","c","d","e","f","g","h","i","j","k","l","m",
               "n","o","p","q","r","s","t","u","v","w","x","y","z">>

lower_char(ch) ==
    IF \E i \in DOMAIN UpperCase : UpperCase[i] = ch
    THEN LowerCase[CHOOSE i \in DOMAIN UpperCase : UpperCase[i] = ch]
    ELSE ch

\* str.lower()
lower(s) == [i \in DOMAIN s |-> lower_char(s[i])]

\* str.strip(): drops the leading and the trailing whitespace
strip(s) ==
    LET keep == {i \in DOMAIN s : s[i] \notin Whitespace}
    IN  IF keep = {} THEN <<>>
        ELSE LET lo == CHOOSE i \in keep : \A j \in keep : i <= j
                 hi == CHOOSE i \in keep : \A j \in keep : j <= i
             IN  SubSeq(s, lo, hi)

\* `sub in s` on strings
contains(s, sub) ==
    \E i \in 0 .. (Len(s) - Len(sub)) : SubSeq(s, i + 1, i + Len(sub)) = sub

\* s[-n:]
last(s, n) == IF Len(s) <= n THEN s ELSE SubSeq(s, Len(s) - n + 1, Len(s))

\* ------------------------------------------------------- conversation store

message(role, content) == [role |-> role, content |-> content]

\* mutant of get: one history is kept for all the calls
get_shared(convs, call_sid) ==
    IF DOMAIN convs = {} THEN <<>> ELSE convs[CHOOSE c \in DOMAIN convs : TRUE]

\* conversations.get(call_sid, [])
get(convs, call_sid) ==
    IF call_sid \in DOMAIN convs THEN convs[call_sid] ELSE <<>>

\* mutant of put: the store is rebuilt around the key that is written
put_alone(convs, call_sid, history) == [c \in {call_sid} |-> history]

\* conversations[call_sid] = history
put(convs, call_sid, history) ==
    [c \in (DOMAIN convs) \cup {call_sid} |->
        IF c = call_sid THEN history ELSE convs[c]]

\* mutants of truncate: no truncation; the oldest entries kept (messages[:LIMIT])
truncate_unbounded(messages) == messages
truncate_oldest(messages) ==
    IF Len(messages) <= CONVERSATION_HISTORY_LIMIT THEN messages
    ELSE SubSeq(messages, 1, CONVERSATION_HISTORY_LIMIT)

\* mutant of truncate: the first message is kept and the oldest after it dropped
truncate_pinning(messages) ==
    IF Len(messages) <= CONVERSATION_HISTORY_LIMIT THEN messages
    ELSE <<messages[1]>> \o last(messages, CONVERSATION_HISTORY_LIMIT - 1)

\* messages[-CONVERSATION_HISTORY_LIMIT:]
truncate(messages) == last(messages, CONVERSATION_HISTORY_LIMIT)

\* messages[-10:]
vce_truncate(messages) == last(messages, VCE_HISTORY_LIMIT)

\* ---------------------------------------------------------------- event log

EMPTY_DICT == << >>

\* the dict built in JSONLogger.log_event (timestamp, date and time left out)
log_entry(event_type, call_sid, step, data, duration) ==
    [event_type |-> event_type, call_sid |-> call_sid, step |-> step,
     data |-> data, duration_seconds |-> duration]

\* logs/app_logs.json holding the JSON array of these records
json_file(records) == [json |-> TRUE, records |-> records]

\* the file after a write that failed between open(.., 'w') and the end of
\* json.dump: truncated, not a JSON document
PARTIAL == [json |-> FALSE, records |-> << >>]

\* mutant of save_logs: the new record is added to the array in the file
save_logs_incremental(the_logs, file, disk) ==
    IF disk = "ok"
    THEN [log_file |-> json_file(Append(file.records, the_logs[Len(the_logs)])),
          exc |-> None]
    ELSE IF disk = "open_fails" THEN [log_file |-> file, exc |-> None]
    ELSE [log_file |-> PARTIAL, exc |-> None]

\* mutant of save_logs: the failure of the write is not caught
save_logs_raising(the_logs, file, disk) ==
    IF disk = "ok" THEN [log_file |-> json_file(the_logs), exc |-> None]
    ELSE IF disk = "open_fails" THEN [log_file |-> file, exc |-> "OSError"]
    ELSE [log_file |-> PARTIAL, exc |-> "OSError"]

\* mutant of save_logs: the file is written before the record is appended
save_logs_before_append(the_logs, file, disk) ==
    IF disk = "ok"
    THEN [log_file |-> json_file(SubSeq(the_logs, 1, Len(the_logs) - 1)), exc |-> None]
    ELSE IF disk = "open_fails" THEN [log_file |-> file, exc |-> None]
    ELSE [log_file |-> PARTIAL, exc |-> None]

\* JSONLogger.save_logs: rewrite the whole file; any Exception is logged and dropped
save_logs(the_logs, file, disk) ==
    IF disk = "ok" THEN [log_file |-> json_file(the_logs), exc |-> None]
    ELSE IF disk = "open_fails" THEN [log_file |-> file, exc |-> None]
    ELSE [log_file |-> PARTIAL, exc |-> None]

\* the state a handler works on: the module globals, the file system, the
\* exception in flight (None while the handler runs normally) and the outcome
\* every file write of this request has
state(convs, the_logs, file, files, disk) ==
    [conversations |-> convs, logs |-> the_logs, log_file |-> file,
     audio_files |-> files, exc |-> None, disk |-> disk]

\* an assignment to conversations[call_sid], reached unless an exception is in flight
set_history(s, call_sid, history) ==
    IF s.exc # None THEN s
    ELSE [s EXCEPT !.conversations = put(s.conversations, call_sid, history)]

\* the files a synthesis left, reached unless an exception is in flight
set_files(s, files) ==
    IF s.exc # None THEN s ELSE [s EXCEPT !.audio_files = files]

\* JSONLogger.log_event: self.logs.append(log_entry); self.save_logs()
log_event(s, entry) ==
    IF s.exc # None THEN s
    ELSE LET appended == Append(s.logs, entry)
             saved == save_logs(appended, s.log_file, s.disk)
         IN  [s EXCEPT !.logs = appended, !.log_file = saved.log_file,
                       !.exc = saved.exc]

\* ------------------------------------------------------- completion gateway

\* what groq_client.chat.completions.create does: it returns a completion
\* whose first choice has the given content, or one whose content is None,
\* or it raises an exception of the given class with the given str(e)
completion(content) == [kind |-> "completion", content |-> content]
completion_without_content == [kind |-> "completion_none"]
raises(type, error) == [kind |-> "raise", type |-> type, error |-> error]
not_called == [kind |-> "not_called"]

\* str(e) of the AttributeError that None.strip() raises (no operation of the
\* source finds one of its keywords in it)
NONE_HAS_NO_STRIP == <<"'NoneType' object has no attribute 'strip'">>

\* is the lower-cased error text one of a timeout or of connection trouble
is_timeout(error_str) ==
    \/ contains(error_str, <<"t","i","m","e","o","u","t">>)
    \/ contains(error_str, <<"t","i","m","e","d"," ","o","u","t">>)
    \/ contains(error_str, <<"c","o","n","n","e","c","t","i","o","n">>)

\* mutant of get_llm_response: the error text is matched as it is, not lower-cased
get_llm_response_case_sensitive(messages, llm) ==
    LET e == IF llm.kind = "raise" THEN [type |-> llm.type, error |-> llm.error]
             ELSE [type |-> "AttributeError", error |-> NONE_HAS_NO_STRIP]
    IN  IF llm.kind = "completion"
        THEN [kind |-> "return", text |-> strip(llm.content)]
        ELSE IF is_timeout(e.error)
        THEN [kind |-> "raise", type |-> "TimeoutError",
              error |-> TIMEOUT_ERROR_PREFIX \o e.error]
        ELSE [kind |-> "raise", type |-> e.type, error |-> e.error]

\* get_llm_response: the content of the first choice, stripped; an exception
\* whose text reads as a timeout becomes a TimeoutError, any other is re-raised
get_llm_response(messages, llm) ==
    LET e == IF llm.kind = "raise" THEN [type |-> llm.type, error |-> llm.error]
             ELSE [type |-> "AttributeError", error |-> NONE_HAS_NO_STRIP]
    IN  IF llm.kind = "completion"
        THEN [kind |-> "return", text |-> strip(llm.content)]
        ELSE IF is_timeout(lower(e.error))
        THEN [kind |-> "raise", type |-> "TimeoutError",
              error |-> TIMEOUT_ERROR_PREFIX \o e.error]
        ELSE [kind |-> "raise", type |-> e.type, error |-> e.error]

\* isinstance(e, TimeoutError), as `except TimeoutError` tests it
is_TimeoutError(type) == type = "TimeoutError"

\* ------------------------------------------------- speech synthesis adapter

path(call_sid, suffix, ext) == <<"tts", call_sid, suffix, ext>>

\* mutant of generate_tts_audio: only the synthesis is inside the try
generate_tts_audio_unguarded_export(files, text, call_sid, suffix, tts) ==
    LET mp3_path == path(call_sid, suffix, "mp3")
        wav_path == path(call_sid, suffix, "wav")
    IN  IF tts = "ok"
        THEN [wav_path |-> wav_path, mp3_path |-> mp3_path,
              audio_files |-> files \cup {mp3_path, wav_path}, exc |-> None]
        ELSE IF tts = "transcode_fails"
        THEN [wav_path |-> NoPath, mp3_path |-> NoPath,
              audio_files |-> files \cup {mp3_path}, exc |-> "CouldntDecodeError"]
        ELSE [wav_path |-> NoPath, mp3_path |-> NoPath, audio_files |-> files,
              exc |-> None]

\* generate_tts_audio: gTTS + tts.save write the mp3, pydub exports the wav;
\* tts is what the two stages do; any Exception gives (None, None)
generate_tts_audio(files, text, call_sid, suffix, tts) ==
    LET mp3_path == path(call_sid, suffix, "mp3")
        wav_path == path(call_sid, suffix, "wav")
    IN  IF tts = "ok"
        THEN [wav_path |-> wav_path, mp3_path |-> mp3_path,
              audio_files |-> files \cup {mp3_path, wav_path}, exc |-> None]
        ELSE IF tts = "transcode_fails"
        THEN [wav_path |-> NoPath, mp3_path |-> NoPath,
              audio_files |-> files \cup {mp3_path}, exc |-> None]
        ELSE [wav_path |-> NoPath, mp3_path |-> NoPath, audio_files |-> files,
              exc |-> None]

\* --------------------------------------------------------------- responses

Say(text) == [verb |-> "Say", text |-> text]
Play(url) == [verb |-> "Play", url |-> url]
Gather(call_sid) == [verb |-> "Gather", action |-> call_sid]
Hangup == [verb |-> "Hangup"]

\* the calls a handler made to its collaborators: the message lists sent to
\* the completion service with what it answered, the texts sent to synthesis
\* with what the two stages did and what the synthesis returned
no_calls ==
    [llm_requests |-> << >>, llm |-> not_called,
     tts_requests |-> << >>, tts |-> "not_called", tts_returns |-> << >>]

calls(llm_requests, llm, tts_requests, tts, tts_returns) ==
    [llm_requests |-> llm_requests, llm |-> llm,
     tts_requests |-> tts_requests, tts |-> tts, tts_returns |-> tts_returns]

\* what a handler did: the Response it returned (or the exception that left
\* it), the directive of the return statement reached, the text spoken or to
\* be spoken, the audio reference, and the calls made to the collaborators
outcome(s, directive, twiml, text, audio_url, made) ==
    [status |-> IF s.exc = None THEN "returned" ELSE "raised",
     directive |-> IF s.exc = None THEN directive ELSE None,
     twiml |-> IF s.exc = None THEN twiml ELSE <<>>,
     text |-> text, audio_url |-> audio_url,
     llm_requests |-> made.llm_requests, llm |-> made.llm,
     tts_requests |-> made.tts_requests, tts |-> made.tts,
     tts_returns |-> made.tts_returns]

done(s, o) == [state |-> s, result |-> o]

\* the directive of the response that ends a turn which reached synthesis
directive(audio_url) ==
    IF audio_url # NoPath THEN "play_audio" ELSE "speak_text_fallback"

\* an exception raised by a callee, unless one is already in flight
raise(s, exc) ==
    IF s.exc # None \/ exc = None THEN s ELSE [s EXCEPT !.exc = exc]

\* ------------------------------------------------- backend/main.py handlers

\* the events backend/main.py logs, one operator per log_event call
call_received_event(CallSid) ==
    log_entry("call_incoming", CallSid, "call_received", [from |-> "From"], None)

\* mutant of no_speech_event: the reprompt closes the turn with a complete event
no_speech_event_completing(call_sid, SpeechResult) ==
    log_entry("speech_processing", call_sid, "complete",
              [turn_number |-> 0, total_steps |-> 4], SECONDS)

no_speech_event(call_sid, SpeechResult) ==
    log_entry("speech_processing", call_sid, "no_speech_detected",
              [error |-> "No speech or speech too short",
               error_type |-> "silence_or_no_speech",
               speech_result_length |-> Len(SpeechResult)], SECONDS)

stt_failure_event(call_sid, SpeechResult) ==
    log_entry("stt", call_sid, "stt_failure",
              [error |-> "STT failure", error_type |-> "stt_failure",
               speech_result |-> SpeechResult], SECONDS)

stt_event(call_sid, user_text, turn_num) ==
    log_entry("stt", call_sid, "speech_to_text",
              [provider |-> "twilio", transcribed_text |-> user_text,
               text_length |-> Len(user_text), turn_number |-> turn_num], SECONDS)

llm_response_event(call_sid, ai_response, turn_num) ==
    log_entry("llm", call_sid, "llm_response",
              [model_response_text |-> ai_response,
               response_length |-> Len(ai_response),
               turn_number |-> turn_num], SECONDS)

llm_timeout_event(call_sid, error, turn_num) ==
    log_entry("llm", call_sid, "llm_timeout",
              [error |-> error, error_type |-> "timeout",
               turn_number |-> turn_num], SECONDS)

llm_error_event(call_sid, error, error_type, turn_num) ==
    log_entry("llm", call_sid, "llm_error",
              [error |-> error, error_type |-> error_type,
               turn_number |-> turn_num], SECONDS)

tts_event(call_sid, wav_path, audio_url, turn_num) ==
    log_entry("tts", call_sid, "text_to_speech",
              [provider |-> "gtts", tts_filename |-> wav_path,
               audio_url |-> audio_url, turn_number |-> turn_num], SECONDS)

tts_error_event(call_sid, turn_num) ==
    log_entry("tts", call_sid, "tts_error",
              [error |-> "TTS generation failed", error_type |-> "tts_failure",
               fallback |-> "twilio_tts", turn_number |-> turn_num], SECONDS)

\* mutant of complete_event: the duration is left to its default
complete_event_untimed(call_sid, turn_num) ==
    log_entry("speech_processing", call_sid, "complete",
              [turn_number |-> turn_num, total_steps |-> 4], None)

complete_event(call_sid, turn_num) ==
    log_entry("speech_processing", call_sid, "complete",
              [turn_number |-> turn_num, total_steps |-> 4], SECONDS)

\* POST /api/voice/incoming
incoming_call(s, CallSid) ==
    LET s1 == set_history(s, CallSid, <<message("system", SYSTEM_PROMPT)>>)
        s2 == log_event(s1, call_received_event(CallSid))
    IN  done(s2, outcome(s2, "greet", <<Say(SAY_HELLO), Gather(CallSid)>>,
                         SAY_HELLO, NoPath, no_calls))

\* POST /api/voice/process, first return: silence or speech too short
no_speech(s, call_sid, SpeechResult) ==
    LET s1 == log_event(s, no_speech_event(call_sid, SpeechResult))
    IN  done(s1, outcome(s1, "reprompt_no_speech",
                         <<Say(SAY_NO_SPEECH), Gather(call_sid)>>,
                         SAY_NO_SPEECH, NoPath, no_calls))

\* POST /api/voice/process, second return: the recogniser reported a failure
stt_failure(s, call_sid, SpeechResult) ==
    LET s1 == log_event(s, stt_failure_event(call_sid, SpeechResult))
    IN  done(s1, outcome(s1, "reprompt_stt_failure",
                         <<Say(SAY_STT_FAILURE), Gather(call_sid)>>,
                         SAY_STT_FAILURE, NoPath, no_calls))

\* mutant of llm_stage: a failed completion is attempted a second time
llm_stage_retrying(s, call_sid, user_text, turn_num, llm) ==
    LET s1 == log_event(s, stt_event(call_sid, user_text, turn_num))
        messages == get(s.conversations, call_sid) \o <<message("user", user_text)>>
        r == get_llm_response(messages, llm)
    IN  IF r.kind = "return"
        THEN LET committed == set_history(s1, call_sid,
                     truncate(Append(messages, message("assistant", r.text))))
             IN  [state |-> log_event(committed,
                                      llm_response_event(call_sid, r.text, turn_num)),
                  ai_response |-> r.text, llm_requests |-> <<messages>>, llm |-> llm]
        ELSE IF is_TimeoutError(r.type)
        THEN [state |-> log_event(s1, llm_timeout_event(call_sid, r.error, turn_num)),
              ai_response |-> TIMEOUT_APOLOGY, llm_requests |-> <<messages, messages>>,
              llm |-> llm]
        ELSE [state |-> log_event(s1, llm_error_event(call_sid, r.error, r.type, turn_num)),
              ai_response |-> ERROR_APOLOGY_PREFIX \o r.error,
              llm_requests |-> <<messages, messages>>, llm |-> llm]

\* POST /api/voice/process, steps 1 and 2: the transcript event, the one
\* completion call, the commit of the exchange and the completion event
\* mutant of llm_stage: the user message is appended to the stored list itself
llm_stage_in_place(s, call_sid, user_text, turn_num, llm) ==
    LET messages == get(s.conversations, call_sid) \o <<message("user", user_text)>>
        s1 == log_event(set_history(s, call_sid, messages),
                        stt_event(call_sid, user_text, turn_num))
        r == get_llm_response(messages, llm)
    IN  IF r.kind = "return"
        THEN LET committed == set_history(s1, call_sid,
                     truncate(Append(messages, message("assistant", r.text))))
             IN  [state |-> log_event(committed,
                                      llm_response_event(call_sid, r.text, turn_num)),
                  ai_response |-> r.text, llm_requests |-> <<messages>>, llm |-> llm]
        ELSE IF is_TimeoutError(r.type)
        THEN [state |-> log_event(s1, llm_timeout_event(call_sid, r.error, turn_num)),
              ai_response |-> TIMEOUT_APOLOGY, llm_requests |-> <<messages>>,
              llm |-> llm]
        ELSE [state |-> log_event(s1, llm_error_event(call_sid, r.error, r.type, turn_num)),
              ai_response |-> ERROR_APOLOGY_PREFIX \o r.error,
              llm_requests |-> <<messages>>, llm |-> llm]

llm_stage(s, call_sid, user_text, turn_num, llm) ==
    LET s1 == log_event(s, stt_event(call_sid, user_text, turn_num))
        messages == get(s.conversations, call_sid) \o <<message("user", user_text)>>
        r == get_llm_response(messages, llm)
    IN  IF r.kind = "return"
        THEN LET committed == set_history(s1, call_sid,
                     truncate(Append(messages, message("assistant", r.text))))
             IN  [state |-> log_event(committed,
                                      llm_response_event(call_sid, r.text, turn_num)),
                  ai_response |-> r.text, llm_requests |-> <<messages>>, llm |-> llm]
        ELSE IF is_TimeoutError(r.type)
        THEN [state |-> log_event(s1, llm_timeout_event(call_sid, r.error, turn_num)),
              ai_response |-> TIMEOUT_APOLOGY, llm_requests |-> <<messages>>,
              llm |-> llm]
        ELSE [state |-> log_event(s1, llm_error_event(call_sid, r.error, r.type, turn_num)),
              ai_response |-> ERROR_APOLOGY_PREFIX \o r.error,
              llm_requests |-> <<messages>>, llm |-> llm]

\* mutant of send_response: the text is not said when there is no audio
send_response_silent(call_sid, ai_response, audio_url) ==
    IF audio_url # NoPath
    THEN <<Play(audio_url), Gather(call_sid), Hangup>>
    ELSE <<Gather(call_sid), Hangup>>

\* POST /api/voice/process, step 4: play the audio or say the text, gather, hang up
send_response(call_sid, ai_response, audio_url) ==
    IF audio_url # NoPath
    THEN <<Play(audio_url), Gather(call_sid), Hangup>>
    ELSE <<Say(ai_response), Gather(call_sid), Hangup>>

\* POST /api/voice/process, steps 3 and 4: synthesis, its event, the TwiML
\* and the complete event
\* mutant of tts_stage: the turn number is computed again from the store
tts_stage_recounting(s, call_sid, ai_response, turn_num, llm_requests, llm, suffix, tts) ==
    LET recount == Len(get(s.conversations, call_sid)) - 1
        t == generate_tts_audio(s.audio_files, ai_response, call_sid, suffix, tts)
        s1 == raise(set_files(s, t.audio_files), t.exc)
        audio_url == t.wav_path
        s2 == IF t.wav_path # NoPath
              THEN log_event(s1, tts_event(call_sid, t.wav_path, audio_url, recount))
              ELSE log_event(s1, tts_error_event(call_sid, recount))
        s3 == log_event(s2, complete_event(call_sid, recount))
    IN  done(s3, outcome(s3, directive(audio_url),
                         send_response(call_sid, ai_response, audio_url),
                         ai_response, audio_url,
                         calls(llm_requests, llm, <<ai_response>>, tts, <<t.wav_path>>)))

\* mutant of tts_stage: a synthesis that returns null takes the exchange back
tts_stage_rolling_back(s, call_sid, ai_response, turn_num, llm_requests, llm, suffix, tts) ==
    LET t == generate_tts_audio(s.audio_files, ai_response, call_sid, suffix, tts)
        h == get(s.conversations, call_sid)
        s0 == IF t.wav_path = NoPath /\ Len(h) >= 2
              THEN set_history(s, call_sid, SubSeq(h, 1, Len(h) - 2))
              ELSE s
        s1 == raise(set_files(s0, t.audio_files), t.exc)
        audio_url == t.wav_path
        s2 == IF t.wav_path # NoPath
              THEN log_event(s1, tts_event(call_sid, t.wav_path, audio_url, turn_num))
              ELSE log_event(s1, tts_error_event(call_sid, turn_num))
        s3 == log_event(s2, complete_event(call_sid, turn_num))
    IN  done(s3, outcome(s3, directive(audio_url),
                         send_response(call_sid, ai_response, audio_url),
                         ai_response, audio_url,
                         calls(llm_requests, llm, <<ai_response>>, tts, <<t.wav_path>>)))

tts_stage(s, call_sid, ai_response, turn_num, llm_requests, llm, suffix, tts) ==
    LET t == generate_tts_audio(s.audio_files, ai_response, call_sid, suffix, tts)
        s1 == raise(set_files(s, t.audio_files), t.exc)
        audio_url == t.wav_path
        s2 == IF t.wav_path # NoPath
              THEN log_event(s1, tts_event(call_sid, t.wav_path, audio_url, turn_num))
              ELSE log_event(s1, tts_error_event(call_sid, turn_num))
        s3 == log_event(s2, complete_event(call_sid, turn_num))
    IN  done(s3, outcome(s3, directive(audio_url),
                         send_response(call_sid, ai_response, audio_url),
                         ai_response, audio_url,
                         calls(llm_requests, llm, <<ai_response>>, tts, <<t.wav_path>>)))

\* mutant of no_speech_detected: the length is taken before trimming
no_speech_detected_untrimmed(SpeechResult) ==
    SpeechResult = <<>> \/ Len(SpeechResult) < 2

\* not SpeechResult or len(SpeechResult.strip()) < 2
no_speech_detected(SpeechResult) ==
    SpeechResult = <<>> \/ Len(strip(SpeechResult)) < 2

\* SpeechResult.strip().lower() in ["", "error", "failed", "timeout"]
stt_failure_detected(SpeechResult) ==
    lower(strip(SpeechResult)) \in STT_SENTINELS

\* POST /api/voice/process
process_speech(s, call_sid, SpeechResult, llm, suffix, tts) ==
    IF no_speech_detected(SpeechResult)
    THEN no_speech(s, call_sid, SpeechResult)
    ELSE IF stt_failure_detected(SpeechResult)
    THEN stt_failure(s, call_sid, SpeechResult)
    ELSE LET user_text == strip(SpeechResult)
             turn_num == Len(get(s.conversations, call_sid)) - 1
             l == llm_stage(s, call_sid, user_text, turn_num, llm)
         IN  tts_stage(l.state, call_sid, l.ai_response, turn_num, l.llm_requests,
                       l.llm, suffix, tts)

\* the name of the model, which no operation inspects
GROQ_LLM_MODEL == <<"llama-3.3-70b-versatile">>

\* the events the chat endpoints log
chat_response_event(step, text, ai_response) ==
    log_entry("chat", None, step,
              [model |-> GROQ_LLM_MODEL, input |-> text, response |-> ai_response,
               response_length |-> Len(ai_response)], SECONDS)

chat_error_event(step, text, error) ==
    log_entry("chat", None, step, [error |-> error, input |-> text], SECONDS)

\* what a chat handler did: the JSON body it returned and the calls it made
chat_outcome(s, body, text, made) ==
    [status |-> IF s.exc = None THEN "returned" ELSE "raised",
     directive |-> None, twiml |-> << >>, text |-> text, audio_url |-> NoPath,
     llm_requests |-> made.llm_requests, llm |-> made.llm,
     tts_requests |-> made.tts_requests, tts |-> made.tts,
     tts_returns |-> made.tts_returns, body |-> body]

\* mutant of chat: the exchange is kept in the conversation store
chat_remembering(s, text, llm, response_step, error_step) ==
    LET messages == <<message("system", SYSTEM_PROMPT), message("user", text)>>
        r == get_llm_response(messages, llm)
        made == calls(<<messages>>, llm, << >>, "not_called", << >>)
        s0 == set_history(s, "chat", messages)
    IN  IF r.kind = "return"
        THEN LET s1 == log_event(s0, chat_response_event(response_step, text, r.text))
             IN  done(s1, chat_outcome(s1, [status |-> "success", input |-> text,
                                            response |-> r.text,
                                            model |-> GROQ_LLM_MODEL], r.text, made))
        ELSE LET s1 == log_event(s0, chat_error_event(error_step, text, r.error))
             IN  done(s1, chat_outcome(s1, [status |-> "error", error |-> r.error],
                                       r.error, made))

\* the body the two chat handlers share, but for the step labels
chat(s, text, llm, response_step, error_step) ==
    LET messages == <<message("system", SYSTEM_PROMPT), message("user", text)>>
        r == get_llm_response(messages, llm)
        made == calls(<<messages>>, llm, << >>, "not_called", << >>)
    IN  IF r.kind = "return"
        THEN LET s1 == log_event(s, chat_response_event(response_step, text, r.text))
             IN  done(s1, chat_outcome(s1, [status |-> "success", input |-> text,
                                            response |-> r.text,
                                            model |-> GROQ_LLM_MODEL], r.text, made))
        ELSE LET s1 == log_event(s, chat_error_event(error_step, text, r.error))
             IN  done(s1, chat_outcome(s1, [status |-> "error", error |-> r.error],
                                       r.error, made))

\* POST /api/chat
chat_endpoint(s, text, llm) == chat(s, text, llm, "llm_response", "llm_error")

\* GET /api/chat
chat_endpoint_get(s, text, llm) ==
    chat(s, text, llm, "llm_response_get", "llm_error_get")

\* --------------------------------------- voicecallendpoint/main.py handlers

\* the events voicecallendpoint/main.py logs, one operator per log_event call
vce_no_speech_event(call_sid) ==
    log_entry("speech_processing", call_sid, "no_speech_detected",
              [error |-> "No speech or speech too short"], SECONDS)

vce_stt_event(call_sid, SpeechResult, user_text, turn_num) ==
    log_entry("stt", call_sid, "speech_to_text",
              [provider |-> "twilio", raw_speech_result |-> SpeechResult,
               transcribed_text |-> user_text,
               text_length |-> Len(user_text), turn_number |-> turn_num], SECONDS)

vce_tts_event(call_sid, ai_response, mp3_path, wav_path, audio_url, turn_num) ==
    log_entry("tts", call_sid, "text_to_speech",
              [provider |-> "gtts", input_text |-> ai_response,
               mp3_path |-> mp3_path, wav_path |-> wav_path,
               audio_url |-> audio_url, turn_number |-> turn_num], SECONDS)

vce_tts_error_event(call_sid, error, ai_response) ==
    log_entry("tts", call_sid, "tts_error",
              [provider |-> "gtts", error |-> error, input_text |-> ai_response,
               fallback |-> "twilio_tts"], SECONDS)

vce_response_sent_event(call_sid, audio_url, turn_num) ==
    log_entry("speech_processing", call_sid, "response_sent",
              [turn_number |-> turn_num, used_audio_file |-> (audio_url # NoPath),
               audio_url |-> audio_url], SECONDS)

vce_complete_event(call_sid, turn_num) ==
    log_entry("speech_processing", call_sid, "complete",
              [turn_number |-> turn_num, total_steps |-> 4], SECONDS)

\* POST /api/voice/incoming
vce_incoming_call(s, CallSid) ==
    LET s1 == set_history(s, CallSid, <<message("system", SYSTEM_PROMPT)>>)
    IN  done(s1, outcome(s1, "greet", <<Say(SAY_HELLO), Gather(CallSid)>>,
                         SAY_HELLO, NoPath, no_calls))

\* POST /api/voice/process, first return: silence or speech too short
vce_no_speech(s, call_sid, SpeechResult) ==
    LET s1 == log_event(s, vce_no_speech_event(call_sid))
    IN  done(s1, outcome(s1, "reprompt_no_speech", <<Gather(call_sid)>>,
                         << >>, NoPath, no_calls))

\* str(e) of what the Groq call, or the read of its content, raised
vce_error(llm) ==
    IF llm.kind = "raise" THEN llm.error ELSE NONE_HAS_NO_STRIP

\* POST /api/voice/process, LLM block: the transcript event, the completion
\* call made in place and the commit of the exchange; no event follows it
vce_llm_stage(s, call_sid, SpeechResult, user_text, turn_num, llm) ==
    LET s1 == log_event(s, vce_stt_event(call_sid, SpeechResult, user_text, turn_num))
        messages == get(s.conversations, call_sid) \o <<message("user", user_text)>>
    IN  IF llm.kind = "completion"
        THEN LET ai_response == strip(llm.content)
             IN  [state |-> set_history(s1, call_sid,
                      vce_truncate(Append(messages, message("assistant", ai_response)))),
                  ai_response |-> ai_response, llm_requests |-> <<messages>>,
                  llm |-> llm]
        ELSE [state |-> s1, ai_response |-> VCE_ERROR_PREFIX \o vce_error(llm),
              llm_requests |-> <<messages>>, llm |-> llm]

\* POST /api/voice/process, response block
vce_send_response(call_sid, ai_response, audio_url) ==
    IF audio_url # NoPath
    THEN <<Play(audio_url), Gather(call_sid), Hangup>>
    ELSE <<Say(ai_response), Gather(call_sid), Hangup>>

\* POST /api/voice/process, TTS block: gTTS, the mp3, the wav, inside one try
vce_synthesize(files, call_sid, suffix, tts) ==
    LET mp3_path == path(call_sid, suffix, "mp3")
        wav_path == path(call_sid, suffix, "wav")
    IN  [mp3_path |-> mp3_path, wav_path |-> wav_path,
         audio_url |-> IF tts = "ok" THEN wav_path ELSE NoPath,
         audio_files |-> IF tts = "ok" THEN files \cup {mp3_path, wav_path}
                         ELSE IF tts = "transcode_fails" THEN files \cup {mp3_path}
                         ELSE files]

\* POST /api/voice/process, TTS block and response: the synthesis, its event,
\* the TwiML, the response_sent and complete events
vce_tts_stage(s, call_sid, ai_response, turn_num, llm_requests, llm, suffix, tts) ==
    LET t == vce_synthesize(s.audio_files, call_sid, suffix, tts)
        s1 == set_files(s, t.audio_files)
        audio_url == t.audio_url
        s2 == IF tts = "ok"
              THEN log_event(s1, vce_tts_event(call_sid, ai_response, t.mp3_path,
                                               t.wav_path, audio_url, turn_num))
              ELSE log_event(s1, vce_tts_error_event(call_sid, tts, ai_response))
        s3 == log_event(s2, vce_response_sent_event(call_sid, audio_url, turn_num))
        s4 == log_event(s3, vce_complete_event(call_sid, turn_num))
    IN  done(s4, outcome(s4, directive(audio_url),
                         vce_send_response(call_sid, ai_response, audio_url),
                         ai_response, audio_url,
                         calls(llm_requests, llm, <<ai_response>>, tts, <<audio_url>>)))

\* not SpeechResult or len(SpeechResult.strip()) < 2
vce_no_speech_detected(SpeechResult) ==
    SpeechResult = <<>> \/ Len(strip(SpeechResult)) < 2

\* POST /api/voice/process
vce_process_speech(s, call_sid, SpeechResult, llm, suffix, tts) ==
    IF vce_no_speech_detected(SpeechResult)
    THEN vce_no_speech(s, call_sid, SpeechResult)
    ELSE LET user_text == strip(SpeechResult)
             turn_num == Len(get(s.conversations, call_sid)) - 1
             l == vce_llm_stage(s, call_sid, SpeechResult, user_text, turn_num, llm)
         IN  vce_tts_stage(l.state, call_sid, l.ai_response, turn_num, l.llm_requests,
                           l.llm, suffix, tts)

\* the chat events of voicecallendpoint/main.py: the error carries its class
vce_chat_error_event(step, text, error, error_type) ==
    log_entry("chat", None, step,
              [error |-> error, error_type |-> error_type, input |-> text], SECONDS)

\* the body the two chat handlers of voicecallendpoint/main.py share: the
\* completion call is made in place
vce_chat(s, text, llm, response_step, error_step) ==
    LET messages == <<message("system", SYSTEM_PROMPT), message("user", text)>>
        made == calls(<<messages>>, llm, << >>, "not_called", << >>)
    IN  IF llm.kind = "completion"
        THEN LET ai_response == strip(llm.content)
                 s1 == log_event(s, chat_response_event(response_step, text, ai_response))
             IN  done(s1, chat_outcome(s1, [status |-> "success", input |-> text,
                                            response |-> ai_response,
                                            model |-> GROQ_LLM_MODEL], ai_response, made))
        ELSE LET error_type == IF llm.kind = "raise" THEN llm.type ELSE "AttributeError"
                 s1 == log_event(s, vce_chat_error_event(error_step, text,
                                                         vce_error(llm), error_type))
             IN  done(s1, chat_outcome(s1, [status |-> "error", error |-> vce_error(llm)],
                                       vce_error(llm), made))

vce_chat_endpoint(s, text, llm) ==
    vce_chat(s, text, llm, "llm_response", "llm_error")

vce_chat_endpoint_get(s, text, llm) ==
    vce_chat(s, text, llm, "llm_response_get", "llm_error_get")

\* ------------------------------------------------------------- credentials

\* Python values of more than one type: `a and b` gives a when a is falsy,
\* else b, whatever their types
py_bool(b) == [type |-> "bool", value |-> b]
py_str(text) == [type |-> "str", value |-> text]
truthy(v) == IF v.type = "bool" THEN v.value ELSE v.value # << >>
py_and(a, b) == IF truthy(a) THEN b ELSE a

startswith(text, prefix) ==
    Len(text) >= Len(prefix) /\ SubSeq(text, 1, Len(prefix)) = prefix

\* text[:n]
first(text, n) == IF Len(text) <= n THEN text ELSE SubSeq(text, 1, n)

MIN_SID_LENGTH == 30
MIN_TOKEN_LENGTH == 30
MIN_PHONE_LENGTH == 10
SID_PREVIEW_LENGTH == 10


\* the TWILIO_CREDENTIALS dict as the module builds it from the environment
os_getenv(env) ==
    [account_sid |-> env.TWILIO_ACCOUNT_SID, auth_token |-> env.TWILIO_AUTH_TOKEN,
     phone_number |-> env.TWILIO_PHONE_NUMBER, ui_set |-> FALSE]

validate_twilio_credentials(account_sid, auth_token, phone_number) ==
    IF ~startswith(account_sid, <<"A", "C">>) \/ Len(account_sid) < MIN_SID_LENGTH
    THEN [is_valid |-> FALSE, error_msg |-> <<"Invalid Account SID format. It should start with 'AC' and be at least 30 characters.">>]
    ELSE IF Len(auth_token) < MIN_TOKEN_LENGTH
    THEN [is_valid |-> FALSE, error_msg |-> <<"Invalid Auth Token format. It should be at least 30 characters.">>]
    ELSE IF ~startswith(phone_number, <<"+">>) \/ Len(phone_number) < MIN_PHONE_LENGTH
    THEN [is_valid |-> FALSE, error_msg |-> <<"Invalid Phone Number format. It should start with '+' (e.g., +1234567890).">>]
    ELSE [is_valid |-> TRUE, error_msg |-> None]

\* what the Twilio client does: the account fetch returns an account, returns
\* nothing or raises; the number lookup returns a number, an empty list or raises
twilio(fetch, numbers) == [fetch |-> fetch, numbers |-> numbers]

\* mutant of store_credentials: the ui_set flag is not set
store_credentials_unflagged(credentials, account_sid, auth_token, phone_number) ==
    [credentials EXCEPT !.account_sid = account_sid, !.auth_token = auth_token,
                        !.phone_number = phone_number]

\* the four assignments to TWILIO_CREDENTIALS
store_credentials(credentials, account_sid, auth_token, phone_number) ==
    [account_sid |-> account_sid, auth_token |-> auth_token,
     phone_number |-> phone_number, ui_set |-> TRUE]

credentials_set_event(phone_number) ==
    log_entry("twilio_config", None, "credentials_validated_and_set",
              [account_sid_set |-> TRUE, phone_number |-> phone_number,
               account_name |-> "friendly_name"], None)

\* what a credentials handler did: the JSON body and the dict it left
credentials_outcome(s, credentials, body) ==
    [state |-> s, credentials |-> credentials,
     result |-> chat_outcome(s, body, << >>, no_calls)]

error_body(error) == [status |-> "error", error |-> error]

\* POST /api/twilio/credentials
set_twilio_credentials(s, credentials, account_sid, auth_token, phone_number, client) ==
    LET v == validate_twilio_credentials(account_sid, auth_token, phone_number)
    IN  IF ~v.is_valid
        THEN credentials_outcome(s, credentials, error_body(v.error_msg))
        ELSE IF client.fetch.kind = "raise"
        THEN LET error_msg == client.fetch.error
             IN  IF \/ contains(error_msg, <<"2", "0", "0", "0", "3">>)
                    \/ contains(error_msg, <<"A", "u", "t", "h", "e", "n", "t", "i", "c",
                                             "a", "t", "e">>)
                    \/ contains(error_msg, <<"I", "n", "v", "a", "l", "i", "d">>)
                 THEN credentials_outcome(s, credentials, error_body(<<"Invalid Account SID or Auth Token. Please check your credentials.">>))
                 ELSE IF contains(error_msg, <<"2", "0", "0", "0", "1">>)
                 THEN credentials_outcome(s, credentials, error_body(<<"Unauthorized. Please check your Account SID and Auth Token.">>))
                 ELSE credentials_outcome(s, credentials,
                                          error_body(<<"Failed to connect to Twilio: ">> \o error_msg))
        ELSE IF client.fetch.kind = "none"
        THEN credentials_outcome(s, credentials, error_body(<<"Failed to validate credentials with Twilio">>))
        ELSE IF client.numbers = "empty"
        THEN credentials_outcome(s, credentials,
                 error_body(<<"Phone number ">> \o phone_number
                                \o <<" not found in your Twilio account.">>))
        ELSE LET stored == store_credentials(credentials, account_sid, auth_token,
                                             phone_number)
                 s1 == log_event(s, credentials_set_event(phone_number))
             IN  credentials_outcome(s1, stored,
                     [status |-> "success", message |-> <<"Twilio credentials validated and connected successfully">>])

\* mutant of get_twilio_credentials: the token is the last operand of the chain
get_twilio_credentials_token_last(credentials) ==
    LET has_credentials ==
            py_and(py_and(py_and(py_bool(credentials.ui_set),
                                 py_str(credentials.account_sid)),
                          py_str(credentials.phone_number)),
                   py_str(credentials.auth_token))
    IN  [status |-> "success", configured |-> has_credentials,
         phone_number |-> IF truthy(has_credentials)
                          THEN credentials.phone_number ELSE << >>,
         account_sid_preview |->
             IF truthy(has_credentials)
             THEN first(credentials.account_sid, SID_PREVIEW_LENGTH) \o <<"...">>
             ELSE << >>]

\* GET /api/twilio/credentials
get_twilio_credentials(credentials) ==
    LET has_credentials ==
            py_and(py_and(py_and(py_bool(credentials.ui_set),
                                 py_str(credentials.account_sid)),
                          py_str(credentials.auth_token)),
                   py_str(credentials.phone_number))
    IN  [status |-> "success", configured |-> has_credentials,
         phone_number |-> IF truthy(has_credentials)
                          THEN credentials.phone_number ELSE << >>,
         account_sid_preview |->
             IF truthy(has_credentials)
             THEN first(credentials.account_sid, SID_PREVIEW_LENGTH) \o <<"...">>
             ELSE << >>]

\* mutant of load_existing_logs: the logger starts empty
load_existing_logs_fresh(file) == << >>

\* JSONLogger.load_existing_logs: the array of the file, or [] when the file
\* cannot be parsed
load_existing_logs(file) == IF file.json THEN file.records ELSE << >>

\* ------------------------------------------------------------------ inputs

CallSids == {"CA1", "CA2"}

SR_EMPTY == <<>>
SR_SHORT == <<" ", "a", " ">>
SR_SENTINEL == <<" ", "T", "i", "m", "e", "o", "u", "t">>
SR_HI == <<" ", "h", "i", " ">>
SR_YES == <<"Y", "e", "s">>
SpeechResults == {SR_EMPTY, SR_SHORT, SR_SENTINEL, SR_HI, SR_YES}

LLM_OK == completion(<<" ", "O", "K", "\n">>)
LLM_NO == completion(<<"N", "o">>)
LLM_TIMED_OUT ==
    raises("APITimeoutError", <<"T", "i", "m", "e", "d", " ", "o", "u", "t">>)
LLM_RATE == raises("RateLimitError", <<"4", "2", "9">>)
LlmOutcomes == {LLM_OK, LLM_TIMED_OUT, LLM_RATE}

\* more of what the completion service can do: a whitespace-only content, no
\* content, and errors of several classes and texts
LLM_BLANK == completion(<<" ", "\n">>)
LLM_CONNECTION ==
    raises("APIConnectionError", <<"C", "o", "n", "n", "e", "c", "t", "i", "o", "n",
                                   " ", "e", "r", "r", "o", "r", ".">>)
LLM_GATEWAY_TIMEOUT ==
    raises("APIStatusError", <<"5", "0", "4", " ", "T", "I", "M", "E", "O", "U", "T">>)
LLM_DEADLINE == raises("TimeoutError", <<"d", "e", "a", "d", "l", "i", "n", "e">>)
CompletionOutcomes ==
    {LLM_OK, LLM_BLANK, completion_without_content, LLM_TIMED_OUT, LLM_CONNECTION,
     LLM_GATEWAY_TIMEOUT, LLM_DEADLINE, LLM_RATE}

TtsOutcomes == {"ok", "synthesis_fails", "transcode_fails"}
DiskOutcomes == {"ok", "open_fails", "write_fails"}
Suffixes == {"0a1b2c3d"}

\* the texts sent to the chat endpoints: they are not trimmed
ChatMessages == {SR_HI}

\* n times the same character
repeated(ch, n) == [i \in 1 .. n |-> ch]

\* credentials as the form and the environment give them: a SID of 34
\* characters, one of 29, one that is no account SID; tokens of 32 and of 29
\* characters; numbers with and without the plus sign
SID_OK == <<"A", "C">> \o repeated("0", 32)
SID_ENV == <<"A", "C">> \o repeated("e", 32)
SID_SHORT == <<"A", "C">> \o repeated("0", 27)
SID_KEY == <<"S", "K">> \o repeated("0", 32)
TOKEN_A == repeated("a", 32)
TOKEN_B == repeated("b", 32)
TOKEN_ENV == repeated("e", 32)
TOKEN_SHORT == repeated("a", 29)
PHONE_OK == <<"+", "1", "5", "5", "5", "0", "1", "0", "0", "0", "1">>
PHONE_ENV == <<"+", "1", "5", "5", "5", "0", "1", "0", "0", "0", "2">>
PHONE_BARE == <<"1", "5", "5", "5", "0", "1", "0", "0", "0", "1">>


\* the environment the process starts in: the three variables set, or none
ENVIRONMENT ==
    [TWILIO_ACCOUNT_SID |-> SID_ENV, TWILIO_AUTH_TOKEN |-> TOKEN_ENV,
     TWILIO_PHONE_NUMBER |-> PHONE_ENV]
NO_ENVIRONMENT ==
    [TWILIO_ACCOUNT_SID |-> << >>, TWILIO_AUTH_TOKEN |-> << >>,
     TWILIO_PHONE_NUMBER |-> << >>]
Environments ==
    {ENVIRONMENT, NO_ENVIRONMENT, [ENVIRONMENT EXCEPT !.TWILIO_AUTH_TOKEN = TOKEN_A]}

\* what the Twilio API does with the credentials it is given
ACCOUNT == [kind |-> "account"]
NO_ACCOUNT_RETURNED == [kind |-> "none"]
TWILIO_20003 ==
    raises("TwilioRestException",
           <<"H", "T", "T", "P", " ", "4", "0", "1", " ", "2", "0", "0", "0", "3">>)
TWILIO_20001 ==
    raises("TwilioRestException",
           <<"H", "T", "T", "P", " ", "4", "0", "1", " ", "2", "0", "0", "0", "1">>)
TWILIO_DOWN == raises("ConnectionError", <<"r", "e", "f", "u", "s", "e", "d">>)
TwilioOutcomes ==
    {twilio(ACCOUNT, "found"), twilio(ACCOUNT, "empty"), twilio(ACCOUNT, "raises"),
     twilio(NO_ACCOUNT_RETURNED, "found"), twilio(TWILIO_20003, "found"),
     twilio(TWILIO_20001, "found"), twilio(TWILIO_DOWN, "found")}

\* ----------------------------------------------------------------- actions

current(disk) == state(conversations, logs, log_file, audio_files, disk)

\* the globals and the files after a handler, and the record of the request
finish(req, r, other) ==
    /\ conversations' = r.state.conversations
    /\ logs' = r.state.logs
    /\ log_file' = r.state.log_file
    /\ audio_files' = r.state.audio_files
    /\ result' = r.result
    /\ request' = req
    /\ before' = conversations
    /\ logs_before' = Len(logs)
    /\ served' = served + 1
    /\ twin' = other
    /\ UNCHANGED <<service, tasks, running, TWILIO_CREDENTIALS, loaded>>

\* the entry point this process does not run, as it stands after the same
\* voice requests with the same outcomes of the collaborators
twin_state(disk) ==
    state(twin.conversations, twin.logs, twin.log_file, twin.audio_files, disk)
twin_after(r) ==
    [conversations |-> r.state.conversations, logs |-> r.state.logs,
     log_file |-> r.state.log_file, audio_files |-> r.state.audio_files,
     directive |-> r.result.directive]

IncomingCall(CallSid, disk) ==
    finish([endpoint |-> "incoming", call_sid |-> CallSid],
           IF service = "backend"
           THEN incoming_call(current(disk), CallSid)
           ELSE vce_incoming_call(current(disk), CallSid),
           twin_after(IF service = "backend"
                      THEN vce_incoming_call(twin_state(disk), CallSid)
                      ELSE incoming_call(twin_state(disk), CallSid)))

ProcessSpeech(call_sid, SpeechResult, llm, suffix, tts, disk) ==
    finish([endpoint |-> "process", call_sid |-> call_sid,
            SpeechResult |-> SpeechResult],
           IF service = "backend"
           THEN process_speech(current(disk), call_sid, SpeechResult, llm, suffix, tts)
           ELSE vce_process_speech(current(disk), call_sid, SpeechResult, llm, suffix, tts),
           twin_after(IF service = "backend"
                      THEN vce_process_speech(twin_state(disk), call_sid, SpeechResult,
                                              llm, suffix, tts)
                      ELSE process_speech(twin_state(disk), call_sid, SpeechResult,
                                          llm, suffix, tts)))

\* POST or GET /api/chat
Chat(method, text, llm, disk) ==
    finish([endpoint |-> "chat", method |-> method, message |-> text],
           IF service = "backend"
           THEN IF method = "POST"
                THEN chat_endpoint(current(disk), text, llm)
                ELSE chat_endpoint_get(current(disk), text, llm)
           ELSE IF method = "POST"
                THEN vce_chat_endpoint(current(disk), text, llm)
                ELSE vce_chat_endpoint_get(current(disk), text, llm),
           twin)

\* POST /api/twilio/credentials
SetTwilioCredentials(account_sid, auth_token, phone_number, client, disk) ==
    LET r == set_twilio_credentials(current(disk), TWILIO_CREDENTIALS, account_sid,
                                    auth_token, phone_number, client)
    IN  /\ TWILIO_CREDENTIALS' = r.credentials
        /\ logs' = r.state.logs
        /\ log_file' = r.state.log_file
        /\ result' = r.result
        /\ request' = [endpoint |-> "set_credentials", account_sid |-> account_sid,
                       auth_token |-> auth_token, phone_number |-> phone_number,
                       credentials |-> TWILIO_CREDENTIALS]
        /\ before' = conversations
        /\ logs_before' = Len(logs)
        /\ served' = served + 1
        /\ UNCHANGED <<service, conversations, audio_files, tasks, running, loaded, twin>>

\* GET /api/twilio/credentials
GetTwilioCredentials ==
    /\ result' = chat_outcome(current("ok"), get_twilio_credentials(TWILIO_CREDENTIALS),
                              << >>, no_calls)
    /\ request' = [endpoint |-> "get_credentials"]
    /\ before' = conversations
    /\ logs_before' = Len(logs)
    /\ served' = served + 1
    /\ UNCHANGED <<service, conversations, logs, log_file, audio_files, tasks, running,
                   TWILIO_CREDENTIALS, loaded, twin>>

\* the process ends and is started again in the given environment: the module
\* globals are built anew, the files stay
Restart(env) ==
    /\ conversations' = << >>
    /\ logs' = load_existing_logs(log_file)
    /\ loaded' = load_existing_logs(log_file)
    /\ TWILIO_CREDENTIALS' = os_getenv(env)
    /\ twin' = [twin EXCEPT !.conversations = << >>,
                            !.logs = load_existing_logs(twin.log_file),
                            !.directive = None]
    /\ request' = [endpoint |-> "startup", log_file |-> log_file]
    /\ before' = << >>
    /\ logs_before' = Len(load_existing_logs(log_file))
    /\ result' = [status |-> "started"]
    /\ served' = served + 1
    /\ UNCHANGED <<service, log_file, audio_files, tasks, running>>

NoRequest == [endpoint |-> None]
NoResult == [status |-> None]

Init ==
    /\ service \in {"backend", "voicecallendpoint"}
    /\ conversations = << >>
    /\ logs = << >>
    /\ log_file = json_file(<< >>)
    /\ audio_files = {}
    /\ served = 0
    /\ request = NoRequest
    /\ before = << >>
    /\ logs_before = 0
    /\ result = NoResult
    /\ tasks = << >>
    /\ running = 0
    /\ TWILIO_CREDENTIALS = os_getenv(ENVIRONMENT)
    /\ loaded = << >>
    /\ twin = [conversations |-> << >>, logs |-> << >>, log_file |-> json_file(<< >>),
               audio_files |-> {}, directive |-> None]

\* two calls, every kind of transcript, completion and synthesis outcome
Next ==
    \/ \E c \in CallSids :
          served < MaxRequests /\ IncomingCall(c, "ok")
    \/ \E c \in CallSids, sr \in SpeechResults, l \in LlmOutcomes,
          x \in Suffixes, t \in {"ok", "synthesis_fails"} :
          served < MaxRequests /\ ProcessSpeech(c, sr, l, x, t, "ok")

Spec == Init /\ [][Next]_vars

\* one call, with the file system failing under the event log and the transcoder
NextFaults ==
    \/ \E d \in DiskOutcomes :
          served < MaxRequests /\ IncomingCall("CA1", d)
    \/ \E sr \in SpeechResults, l \in LlmOutcomes, x \in Suffixes,
          t \in {"ok", "transcode_fails"}, d \in DiskOutcomes :
          served < MaxRequests /\ ProcessSpeech("CA1", sr, l, x, t, d)

SpecFaults == Init /\ [][NextFaults]_vars

\* one call, with everything the completion service and the synthesis can do
NextCollaborators ==
    \/ served < MaxRequests /\ IncomingCall("CA1", "ok")
    \/ \E l \in CompletionOutcomes, x \in Suffixes, t \in TtsOutcomes :
          served < MaxRequests /\ ProcessSpeech("CA1", SR_HI, l, x, t, "ok")

SpecCollaborators == Init /\ [][NextCollaborators]_vars

\* chat turns between the requests of a call
NextChat ==
    \/ served < MaxChats /\ IncomingCall("CA1", "ok")
    \/ \E x \in Suffixes :
          served < MaxChats /\ ProcessSpeech("CA1", SR_HI, LLM_OK, x, "ok", "ok")
    \/ \E method \in {"POST", "GET"}, text \in ChatMessages,
          l \in {LLM_OK, LLM_BLANK, completion_without_content, LLM_TIMED_OUT,
                 LLM_RATE} :
          served < MaxChats /\ Chat(method, text, l, "ok")

SpecChat == Init /\ [][NextChat]_vars

\* submissions that fail the format checks: a SID too short, a SID with
\* another prefix, a token too short, a number without the plus sign
BadSubmissions ==
    {<<SID_SHORT, TOKEN_A, PHONE_OK>>, <<SID_KEY, TOKEN_A, PHONE_OK>>,
     <<SID_OK, TOKEN_SHORT, PHONE_OK>>, <<SID_OK, TOKEN_A, PHONE_BARE>>}

\* the credentials endpoints, with everything the provider can answer, and
\* restarts in several environments
NextCredentials ==
    \/ \E bad \in BadSubmissions :
          served < MaxCredentialRequests
              /\ SetTwilioCredentials(bad[1], bad[2], bad[3],
                                      twilio(ACCOUNT, "found"), "ok")
    \/ \E auth_token \in {TOKEN_A, TOKEN_B}, client \in TwilioOutcomes :
          served < MaxCredentialRequests
              /\ SetTwilioCredentials(SID_OK, auth_token, PHONE_OK, client, "ok")
    \/ served < MaxCredentialRequests
          /\ SetTwilioCredentials(SID_OK, TOKEN_A, PHONE_OK,
                                  twilio(ACCOUNT, "found"), "write_fails")
    \/ served < MaxCredentialRequests /\ GetTwilioCredentials
    \/ \E env \in Environments :
          served < MaxCredentialRequests /\ Restart(env)

SpecCredentials == Init /\ [][NextCredentials]_vars

\* one call through more successful turns than the window holds, failed
\* turns in between, greeted at its start and again after the window filled
NextEviction ==
    \/ (served = 0 \/ served >= MaxEviction - 2) /\ served < MaxEviction
          /\ IncomingCall("CA1", "ok")
    \/ \E l \in {LLM_OK, LLM_TIMED_OUT}, x \in Suffixes :
          served < MaxEviction
              /\ ProcessSpeech("CA1", SR_HI, l, x, "synthesis_fails", "ok")

SpecEviction == Init /\ [][NextEviction]_vars

\* runs of the process one after the other over the same log file, with the
\* file system refusing writes
NextRestarts ==
    \/ \E d \in DiskOutcomes, x \in Suffixes :
          served < MaxRunSteps
              /\ ProcessSpeech("CA1", SR_EMPTY, LLM_OK, x, "ok", d)
    \/ served < MaxRunSteps /\ Restart(ENVIRONMENT)

SpecRestarts == Init /\ [][NextRestarts]_vars

\* one call followed through more turns than the history window holds, with
\* turns whose completion and synthesis fail in between
NextTurns ==
    \/ served < MaxTurns /\ IncomingCall("CA1", "ok")
    \/ \E sr \in {SR_HI, SR_YES}, x \in Suffixes :
          served < MaxTurns /\ ProcessSpeech("CA1", sr, LLM_OK, x, "ok", "ok")
    \/ \E l \in {LLM_NO, LLM_TIMED_OUT}, x \in Suffixes :
          served < MaxTurns
              /\ ProcessSpeech("CA1", SR_HI, l, x, "synthesis_fails", "ok")

SpecTurns == Init /\ [][NextTurns]_vars

\* one call, greeted or not, then turn after turn until more exchanges were
\* committed than the history limit counts
NextCommits ==
    \/ served = 0 /\ IncomingCall("CA1", "ok")
    \/ \E l \in {LLM_OK, LLM_NO}, x \in Suffixes :
          served < MaxCommits + 1 /\ ProcessSpeech("CA1", SR_HI, l, x, "ok", "ok")

SpecCommits == Init /\ [][NextCommits]_vars

\* -------------------------------------------------------------- event loop
\*
\* uvicorn.run(app) serves every request on one event loop.  A request that
\* has arrived is a task of the loop; the loop runs one task at a time, from
\* where the task stands to its next suspension point or to its return.  The
\* handlers are followed here statement block by statement block, a call of
\* log_event in its two statements, so that what a suspension between two
\* blocks would allow is a matter of `suspends` alone.

Locals ==
    [user_text |-> << >>, turn_num |-> 0, messages |-> << >>, r |-> not_called,
     ai_response |-> << >>, mp3_path |-> NoPath, wav_path |-> NoPath,
     audio_url |-> NoPath, twiml |-> << >>]

\* the task of a request that has arrived: its parameters, what its
\* collaborators will do, its position (pc; inside log_event: sub), its
\* locals, what the loop was running when it arrived, and the globals and
\* files as its handler found them and as it left them
new_task(arrival) ==
    [endpoint |-> arrival.endpoint, call_sid |-> arrival.call_sid,
     SpeechResult |-> arrival.SpeechResult, llm |-> arrival.llm,
     suffix |-> arrival.suffix, tts |-> arrival.tts, disk |-> arrival.disk,
     pc |-> "start", sub |-> "code", entry |-> log_entry(None, None, None, << >>, None),
     next |-> "start", v |-> Locals,
     arrived_at |-> "idle",
     at_start |-> state(<< >>, << >>, json_file(<< >>), {}, arrival.disk),
     at_end |-> state(<< >>, << >>, json_file(<< >>), {}, arrival.disk)]

\* mutants of suspends: the completion call is awaited; the write of the
\* log file is awaited
suspends_at_completion(task) == task.pc = "call" /\ task.sub = "code"
suspends_at_write(task) == task.sub = "save"

\* does the task, standing where it stands, give the loop back: the handlers,
\* get_llm_response, generate_tts_audio and JSONLogger hold no await
suspends(task) == FALSE

\* a block that ends in json_logger.log_event(entry) and goes on at `next`
logging(task, v, entry, next) ==
    [task EXCEPT !.v = v, !.sub = "append", !.entry = entry, !.next = next]

\* a block that ends without an event and goes on at `next`
going(task, v, next) == [task EXCEPT !.v = v, !.pc = next]

effect(task, convs, files) ==
    [task |-> task, conversations |-> convs, audio_files |-> files]

\* backend/main.py, incoming_call
incoming_call_block(task, convs, files) ==
    IF task.pc = "start"
    THEN effect(logging(task,
                        [task.v EXCEPT !.twiml = <<Say(SAY_HELLO), Gather(task.call_sid)>>],
                        call_received_event(task.call_sid), "return"),
                put(convs, task.call_sid, <<message("system", SYSTEM_PROMPT)>>), files)
    ELSE effect(going(task, task.v, "done"), convs, files)

\* backend/main.py, process_speech
process_speech_block(task, convs, files) ==
    LET v == task.v
        c == task.call_sid
    IN  CASE task.pc = "start" ->
               IF no_speech_detected(task.SpeechResult)
               THEN effect(logging(task, v, no_speech_event(c, task.SpeechResult),
                                   "no_speech_return"), convs, files)
               ELSE IF stt_failure_detected(task.SpeechResult)
               THEN effect(logging(task, v, stt_failure_event(c, task.SpeechResult),
                                   "stt_failure_return"), convs, files)
               ELSE LET user_text == strip(task.SpeechResult)
                        turn_num == Len(get(convs, c)) - 1
                    IN  effect(logging(task, [v EXCEPT !.user_text = user_text,
                                                       !.turn_num = turn_num],
                                       stt_event(c, user_text, turn_num), "read"),
                               convs, files)
          [] task.pc = "no_speech_return" ->
               effect(going(task, [v EXCEPT !.twiml = <<Say(SAY_NO_SPEECH), Gather(c)>>],
                            "done"), convs, files)
          [] task.pc = "stt_failure_return" ->
               effect(going(task, [v EXCEPT !.twiml = <<Say(SAY_STT_FAILURE), Gather(c)>>],
                            "done"), convs, files)
          [] task.pc = "read" ->
               effect(going(task, [v EXCEPT !.messages =
                                       get(convs, c) \o <<message("user", v.user_text)>>],
                            "call"), convs, files)
          [] task.pc = "call" ->
               LET r == get_llm_response(v.messages, task.llm)
               IN  IF r.kind = "return"
                   THEN effect(going(task, [v EXCEPT !.r = r, !.ai_response = r.text],
                                     "commit"), convs, files)
                   ELSE IF is_TimeoutError(r.type)
                   THEN effect(logging(task, [v EXCEPT !.r = r,
                                                       !.ai_response = TIMEOUT_APOLOGY],
                                       llm_timeout_event(c, r.error, v.turn_num),
                                       "synthesize"), convs, files)
                   ELSE effect(logging(task, [v EXCEPT !.r = r, !.ai_response =
                                                  ERROR_APOLOGY_PREFIX \o r.error],
                                       llm_error_event(c, r.error, r.type, v.turn_num),
                                       "synthesize"), convs, files)
          [] task.pc = "commit" ->
               effect(logging(task, v, llm_response_event(c, v.ai_response, v.turn_num),
                              "synthesize"),
                      put(convs, c, truncate(Append(v.messages,
                                                    message("assistant", v.ai_response)))),
                      files)
          [] task.pc = "synthesize" ->
               LET t == generate_tts_audio(files, v.ai_response, c, task.suffix, task.tts)
                   w == [v EXCEPT !.wav_path = t.wav_path, !.mp3_path = t.mp3_path,
                                  !.audio_url = t.wav_path]
               IN  effect(logging(task, w,
                                  IF t.wav_path # NoPath
                                  THEN tts_event(c, t.wav_path, t.wav_path, v.turn_num)
                                  ELSE tts_error_event(c, v.turn_num),
                                  "respond"), convs, t.audio_files)
          [] task.pc = "respond" ->
               effect(logging(task, [v EXCEPT !.twiml =
                                         send_response(c, v.ai_response, v.audio_url)],
                              complete_event(c, v.turn_num), "return"), convs, files)
          [] OTHER -> effect(going(task, v, "done"), convs, files)

\* voicecallendpoint/main.py, incoming_call
vce_incoming_call_block(task, convs, files) ==
    effect(going(task, [task.v EXCEPT !.twiml = <<Say(SAY_HELLO), Gather(task.call_sid)>>],
                 "done"),
           put(convs, task.call_sid, <<message("system", SYSTEM_PROMPT)>>), files)

\* voicecallendpoint/main.py, process_speech
vce_process_speech_block(task, convs, files) ==
    LET v == task.v
        c == task.call_sid
    IN  CASE task.pc = "start" ->
               IF vce_no_speech_detected(task.SpeechResult)
               THEN effect(logging(task, v, vce_no_speech_event(c), "no_speech_return"),
                           convs, files)
               ELSE LET user_text == strip(task.SpeechResult)
                        turn_num == Len(get(convs, c)) - 1
                    IN  effect(logging(task, [v EXCEPT !.user_text = user_text,
                                                       !.turn_num = turn_num],
                                       vce_stt_event(c, task.SpeechResult, user_text,
                                                     turn_num), "read"),
                               convs, files)
          [] task.pc = "no_speech_return" ->
               effect(going(task, [v EXCEPT !.twiml = <<Gather(c)>>], "done"),
                      convs, files)
          [] task.pc = "read" ->
               effect(going(task, [v EXCEPT !.messages =
                                       get(convs, c) \o <<message("user", v.user_text)>>],
                            "call"), convs, files)
          [] task.pc = "call" ->
               IF task.llm.kind = "completion"
               THEN effect(going(task, [v EXCEPT !.ai_response = strip(task.llm.content)],
                                 "commit"), convs, files)
               ELSE effect(going(task, [v EXCEPT !.ai_response =
                                            VCE_ERROR_PREFIX \o vce_error(task.llm)],
                                 "synthesize"), convs, files)
          [] task.pc = "commit" ->
               effect(going(task, v, "synthesize"),
                      put(convs, c, vce_truncate(Append(v.messages,
                                                 message("assistant", v.ai_response)))),
                      files)
          [] task.pc = "synthesize" ->
               LET t == vce_synthesize(files, c, task.suffix, task.tts)
                   w == [v EXCEPT !.wav_path = t.wav_path, !.mp3_path = t.mp3_path,
                                  !.audio_url = t.audio_url]
               IN  effect(logging(task, w,
                                  IF task.tts = "ok"
                                  THEN vce_tts_event(c, v.ai_response, t.mp3_path,
                                                     t.wav_path, t.audio_url, v.turn_num)
                                  ELSE vce_tts_error_event(c, task.tts, v.ai_response),
                                  "respond"), convs, t.audio_files)
          [] task.pc = "respond" ->
               effect(logging(task, [v EXCEPT !.twiml =
                                         vce_send_response(c, v.ai_response, v.audio_url)],
                              vce_response_sent_event(c, v.audio_url, v.turn_num),
                              "complete"), convs, files)
          [] task.pc = "complete" ->
               effect(logging(task, v, vce_complete_event(c, v.turn_num), "return"),
                      convs, files)
          [] OTHER -> effect(going(task, v, "done"), convs, files)

\* the block of its handler a task stands at
block(task, convs, files) ==
    IF service = "backend"
    THEN IF task.endpoint = "incoming"
         THEN incoming_call_block(task, convs, files)
         ELSE process_speech_block(task, convs, files)
    ELSE IF task.endpoint = "incoming"
         THEN vce_incoming_call_block(task, convs, files)
         ELSE vce_process_speech_block(task, convs, files)

\* the requests that arrive
arrival(endpoint, call_sid, SpeechResult, llm, suffix, tts, disk) ==
    [endpoint |-> endpoint, call_sid |-> call_sid, SpeechResult |-> SpeechResult,
     llm |-> llm, suffix |-> suffix, tts |-> tts, disk |-> disk]

Arrivals ==
    { arrival("incoming", "CA1", << >>, not_called, "0a1b2c3d", "ok", "ok"),
      arrival("process", "CA1", SR_HI, LLM_OK, "0a1b2c3d", "ok", "ok"),
      arrival("process", "CA1", SR_YES, LLM_NO, "4e5f6a7b", "synthesis_fails", "ok"),
      arrival("process", "CA1", SR_HI, LLM_TIMED_OUT, "0a1b2c3d", "ok", "write_fails"),
      arrival("process", "CA1", SR_EMPTY, LLM_OK, "0a1b2c3d", "ok", "ok"),
      arrival("process", "CA1", SR_SENTINEL, LLM_OK, "0a1b2c3d", "ok", "ok") }

\* the loop may run task t: it is idle, or t is the task it is running
runnable(t) ==
    /\ t \in DOMAIN tasks
    /\ tasks[t].pc # "done"
    /\ running \in {0, t}

\* who the loop runs after a step of t that left its task as `task`
yield(t, task) == IF task.pc = "done" \/ suspends(task) THEN 0 ELSE t

snapshot(task, convs, the_logs, file, files) ==
    state(convs, the_logs, file, files, task.disk)

UNCHANGED_ghosts ==
    UNCHANGED <<service, served, request, before, logs_before, result,
                TWILIO_CREDENTIALS, loaded, twin>>

\* what the loop is doing: nothing, a turn between its read of the history
\* and its commit, a log_event between its append and its rewrite, or else
busy_with ==
    IF running = 0 THEN "idle"
    ELSE IF /\ tasks[running].endpoint = "process"
            /\ tasks[running].pc \in {"call", "commit"}
            /\ tasks[running].sub = "code"
    THEN "turn_between_read_and_commit"
    ELSE IF tasks[running].sub = "save" THEN "log_event_between_append_and_rewrite"
    ELSE "other"

\* a request arrives while the loop is idle or busy
Accept(a) ==
    /\ Len(tasks) < MaxTasks
    /\ tasks' = Append(tasks, [new_task(a) EXCEPT !.arrived_at = busy_with])
    /\ UNCHANGED <<conversations, logs, log_file, audio_files, running>>
    /\ UNCHANGED_ghosts

\* the loop runs the next block of task t
Block(t) ==
    /\ runnable(t)
    /\ tasks[t].sub = "code"
    /\ LET started == IF tasks[t].pc = "start"
                      THEN [tasks[t] EXCEPT !.at_start =
                               snapshot(tasks[t], conversations, logs, log_file, audio_files)]
                      ELSE tasks[t]
           b == block(started, conversations, audio_files)
           ended == IF b.task.pc = "done"
                    THEN [b.task EXCEPT !.at_end =
                             snapshot(b.task, b.conversations, logs, log_file,
                                      b.audio_files)]
                    ELSE b.task
       IN  /\ tasks' = [tasks EXCEPT ![t] = ended]
           /\ conversations' = b.conversations
           /\ audio_files' = b.audio_files
           /\ running' = yield(t, ended)
    /\ UNCHANGED <<logs, log_file>>
    /\ UNCHANGED_ghosts

\* JSONLogger.log_event of task t: self.logs.append(log_entry)
LogAppend(t) ==
    /\ runnable(t)
    /\ tasks[t].sub = "append"
    /\ logs' = Append(logs, tasks[t].entry)
    /\ tasks' = [tasks EXCEPT ![t].sub = "save"]
    /\ running' = yield(t, tasks'[t])
    /\ UNCHANGED <<conversations, log_file, audio_files>>
    /\ UNCHANGED_ghosts

\* JSONLogger.log_event of task t: self.save_logs(), and the return to the handler
LogSave(t) ==
    /\ runnable(t)
    /\ tasks[t].sub = "save"
    /\ log_file' = save_logs(logs, log_file, tasks[t].disk).log_file
    /\ tasks' = [tasks EXCEPT ![t].sub = "code", ![t].pc = tasks[t].next]
    /\ running' = yield(t, tasks'[t])
    /\ UNCHANGED <<conversations, logs, audio_files>>
    /\ UNCHANGED_ghosts

\* up to MaxTasks requests, arriving at any time, served by the one loop
NextLoop ==
    \/ \E a \in Arrivals : Accept(a)
    \/ \E t \in 1 .. MaxTasks : Block(t)
    \/ \E t \in 1 .. MaxTasks : LogAppend(t)
    \/ \E t \in 1 .. MaxTasks : LogSave(t)

SpecLoop == Init /\ [][NextLoop]_vars

\* ------------------------------------------------------------------ claims

\* the events the last request appended, and their step labels
turn_events == SubSeq(logs, logs_before + 1, Len(logs))
turn_steps == {turn_events[i].step : i \in DOMAIN turn_events}

is_turn == request.endpoint = "process"
persona == message("system", SYSTEM_PROMPT)

\* the last request was a turn whose completion call returned a reply
completion_succeeded ==
    is_turn /\ result.llm.kind = "completion"

\* the history of call c as the backend's event log tells it: the persona at
\* each call_received event, then the transcript and the reply of every
\* llm_response event (the speech_to_text event of a turn precedes it)
RECURSIVE replay(_, _, _)
replay(c, i, h) ==
    IF i > Len(logs) THEN h
    ELSE IF logs[i].call_sid # c THEN replay(c, i + 1, h)
    ELSE IF logs[i].step = "call_received" THEN replay(c, i + 1, <<persona>>)
    ELSE IF logs[i].step = "llm_response"
    THEN replay(c, i + 1, h \o
             <<message("user", logs[i - 1].data.transcribed_text),
               message("assistant", logs[i].data.model_response_text)>>)
    ELSE replay(c, i + 1, h)

\* C1: every history in the conversation store has at most
\* CONVERSATION_HISTORY_LIMIT (10) messages, in every reachable state.
C1_HistoryBounded ==
    \A c \in DOMAIN conversations :
        Len(conversations[c]) <= CONVERSATION_HISTORY_LIMIT

\* a commit onto a history that was already full
C1_Witness ==
    /\ completion_succeeded
    /\ Len(get(before, request.call_sid)) = CONVERSATION_HISTORY_LIMIT
    /\ Len(conversations[request.call_sid]) = CONVERSATION_HISTORY_LIMIT

\* C2: after a turn whose completion succeeded with reply r the stored history
\* is the last 10 entries of (history read at the start, user message with the
\* trimmed transcript, assistant message with r); and the stored history is
\* the last 10 entries of everything committed since the call began, as the
\* backend's event log records it, unaltered and in order.
C2_CommitKeepsLatest ==
    /\ completion_succeeded =>
           conversations[request.call_sid] =
               last(get(before, request.call_sid) \o
                        <<message("user", strip(request.SpeechResult)),
                          message("assistant", result.text)>>,
                    CONVERSATION_HISTORY_LIMIT)
    /\ service = "backend" =>
           \A c \in DOMAIN conversations :
               conversations[c] = last(replay(c, 1, << >>), CONVERSATION_HISTORY_LIMIT)

\* more exchanges than the limit were committed, each of two messages
C2_Witness ==
    /\ service = "backend"
    /\ completion_succeeded
    /\ Len(replay(request.call_sid, 1, << >>)) > 2 * CONVERSATION_HISTORY_LIMIT
    /\ \E i, j \in DOMAIN conversations[request.call_sid] :
           /\ conversations[request.call_sid][i].role = "assistant"
           /\ conversations[request.call_sid][j].role = "assistant"
           /\ conversations[request.call_sid][i].content
                  # conversations[request.call_sid][j].content

\* the last request was a turn whose completion call failed, with an error
\* that reads as a timeout or connection trouble / with any other error
completion_timed_out ==
    is_turn /\ result.llm.kind = "raise" /\ is_timeout(lower(result.llm.error))
completion_failed ==
    is_turn /\ result.llm.kind = "raise" /\ ~is_timeout(lower(result.llm.error))

\* C3: when the completion times out during a turn, the reply text is the
\* fixed apology-for-timeout text, an llm_timeout event is emitted and the
\* conversation store is as it was before the turn.
C3_TimeoutRecovered ==
    completion_timed_out =>
        /\ result.text = TIMEOUT_APOLOGY
        /\ "llm_timeout" \in turn_steps
        /\ conversations = before

\* C3 as backend/main.py alone satisfies it
C3_Backend == service = "backend" => C3_TimeoutRecovered

\* C4: when the completion fails with any non-timeout error, the reply is the
\* apology text carrying the error detail, an llm_error event is emitted, the
\* conversation store is unchanged and the substituted text goes to synthesis.
C4_ErrorRecovered ==
    completion_failed =>
        /\ result.text = ERROR_APOLOGY_PREFIX \o result.llm.error
        /\ "llm_error" \in turn_steps
        /\ conversations = before
        /\ result.tts_requests = <<result.text>>

\* C4 as backend/main.py alone satisfies it
C4_Backend == service = "backend" => C4_ErrorRecovered

\* C5: a turn whose transcript is empty, or shorter than 2 once trimmed,
\* yields reprompt_no_speech, calls neither the completion gateway nor the
\* synthesis adapter and leaves the conversation store unchanged.
C5_NoSpeechReprompts ==
    (is_turn /\ (request.SpeechResult = << >>
                 \/ Len(strip(request.SpeechResult)) < 2)) =>
        /\ result.directive = "reprompt_no_speech"
        /\ result.llm_requests = << >>
        /\ result.tts_requests = << >>
        /\ conversations = before

\* a transcript of three characters, one once trimmed, on a call with a history
C5_Witness ==
    /\ is_turn
    /\ request.SpeechResult = SR_SHORT
    /\ request.call_sid \in DOMAIN before
    /\ result.directive = "reprompt_no_speech"
    /\ "no_speech_detected" \in turn_steps

\* the last request was a turn whose transcript, trimmed and lower-cased, is
\* one of the sentinels error, failed, timeout
sentinel_turn ==
    /\ is_turn
    /\ lower(strip(request.SpeechResult)) \in
           { <<"e","r","r","o","r">>, <<"f","a","i","l","e","d">>,
             <<"t","i","m","e","o","u","t">> }

\* C6: a turn whose transcript, trimmed and lower-cased, is error, failed or
\* timeout yields reprompt_stt_failure with an stt_failure event, calls no
\* completion and leaves the store unchanged, in every implementation.
C6_SentinelReprompts ==
    sentinel_turn =>
        /\ result.directive = "reprompt_stt_failure"
        /\ "stt_failure" \in turn_steps
        /\ result.llm_requests = << >>
        /\ conversations = before

\* C6 as backend/main.py alone satisfies it
C6_Backend == service = "backend" => C6_SentinelReprompts

\* the last request was a turn of backend/main.py that went on to the
\* completion call, for a call identifier no earlier request carried
first_contact ==
    /\ service = "backend"
    /\ is_turn
    /\ result.llm_requests # << >>
    /\ request.call_sid \notin DOMAIN before
    /\ \A i \in 1 .. logs_before : logs[i].call_sid # request.call_sid

\* C7: for a call identifier never seen before, the history a turn obtains is
\* the single persona message: the completion request is [persona, user] and
\* the turn number is 0.
C7_UnseenCallGetsPersona ==
    first_contact =>
        /\ result.llm_requests[1] =
               <<persona, message("user", strip(request.SpeechResult))>>
        /\ \A i \in DOMAIN turn_events :
               turn_events[i].step = "speech_to_text" =>
                   turn_events[i].data.turn_number = 0

\* the last request was a turn that passed input validation
validated_turn ==
    /\ is_turn
    /\ result.directive \notin {"reprompt_no_speech", "reprompt_stt_failure"}

verbs(twiml) == {twiml[i].verb : i \in DOMAIN twiml}

\* C8: a validated turn ends in speak_text_fallback, saying the reply text and
\* with no audio reference, exactly when synthesis returned null, and in
\* play_audio of the returned reference exactly when it returned one, for a
\* real reply and for a substituted apology alike.
C8_DirectiveFollowsSynthesis ==
    validated_turn =>
        /\ Len(result.tts_returns) = 1
        /\ result.tts_requests = <<result.text>>
        /\ IF result.tts_returns[1] = NoPath
           THEN /\ result.directive = "speak_text_fallback"
                /\ result.audio_url = NoPath
                /\ result.twiml[1] = Say(result.text)
                /\ "Play" \notin verbs(result.twiml)
           ELSE /\ result.directive = "play_audio"
                /\ result.audio_url = result.tts_returns[1]
                /\ result.twiml[1] = Play(result.tts_returns[1])
                /\ "Say" \notin verbs(result.twiml)

\* a substituted apology that synthesis could not turn into audio
C8_Witness ==
    /\ validated_turn
    /\ result.llm.kind = "raise"
    /\ result.tts_returns = <<NoPath>>
    /\ result.directive = "speak_text_fallback"
    /\ result.twiml[1] = Say(result.text)

Directives ==
    {"reprompt_no_speech", "reprompt_stt_failure", "play_audio", "speak_text_fallback"}

\* C9: every turn, whatever the transcript, the store, and the outcome of the
\* completion call, of synthesis and of the event-log write, returns a
\* response with one of the four directives; no error leaves the handler.
C9_TurnAlwaysReturns ==
    is_turn =>
        /\ result.status = "returned"
        /\ result.directive \in Directives
        /\ "Gather" \in verbs(result.twiml)

\* a turn in which the completion, the transcoding and the log write all failed
C9_Witness ==
    /\ is_turn
    /\ result.llm.kind = "raise"
    /\ result.tts_returns = <<NoPath>>
    /\ log_file = PARTIAL
    /\ result.status = "returned"

count(steps) ==
    Cardinality({i \in DOMAIN turn_events : turn_events[i].step \in steps})

\* C10: a turn that passes input validation appends one event for the
\* completion stage (llm_response, llm_timeout or llm_error), one for the
\* synthesis stage (text_to_speech or tts_error) and one complete event.
C10_EveryStageLogged ==
    validated_turn =>
        /\ count({"llm_response", "llm_timeout", "llm_error"}) = 1
        /\ count({"text_to_speech", "tts_error"}) = 1
        /\ count({"complete"}) = 1

\* C10 as backend/main.py alone satisfies it
C10_Backend == service = "backend" => C10_EveryStageLogged

\* ---------------------------------------------------- claims on the loop

\* the handler of a task as one step on the state the task started in
atomic(task) ==
    IF service = "backend"
    THEN IF task.endpoint = "incoming"
         THEN incoming_call(task.at_start, task.call_sid)
         ELSE process_speech(task.at_start, task.call_sid, task.SpeechResult,
                             task.llm, task.suffix, task.tts)
    ELSE IF task.endpoint = "incoming"
         THEN vce_incoming_call(task.at_start, task.call_sid)
         ELSE vce_process_speech(task.at_start, task.call_sid, task.SpeechResult,
                                 task.llm, task.suffix, task.tts)

\* the task is a turn that has read the history and has not committed yet
holds_read(task) ==
    task.endpoint = "process" /\ task.pc \in {"call", "commit"} /\ task.sub = "code"

\* the task's request has arrived and its handler has not begun
pending(task) == task.pc = "start" /\ task.sub = "code"

\* the task is a turn that ran to its return and committed an exchange
committed(task) ==
    /\ task.endpoint = "process" /\ task.pc = "done"
    /\ task.v.messages # << >> /\ task.llm.kind = "completion"

in_flight == {t \in DOMAIN tasks : ~pending(tasks[t]) /\ tasks[t].pc # "done"}

\* C11 as stated: nothing serializes the read of the history and the later
\* commit per call identifier, so that while one turn stands between its read
\* and its commit, the handler of another request for the same call
\* identifier that has arrived can begin, read the same history and commit.
C11_TurnsOverlap ==
    \A t1, t2 \in DOMAIN tasks :
        (/\ t1 # t2
         /\ holds_read(tasks[t1])
         /\ tasks[t2].endpoint = "process"
         /\ tasks[t2].call_sid = tasks[t1].call_sid
         /\ pending(tasks[t2]))
        => ENABLED Block(t2)

\* C11 as amended: requests overlap, their handlers do not.  At most one
\* handler is between its first statement and its return; the history a turn
\* has read is the stored one until that turn commits; and every handler
\* leaves the store, the log, the files and its response as its whole body,
\* run as one step on the state it started in, leaves them: no exchange of
\* one turn is dropped by the commit of another.
C11_TurnsSerialized ==
    /\ Cardinality(in_flight) <= 1
    /\ \A t \in DOMAIN tasks :
           /\ holds_read(tasks[t]) =>
                  tasks[t].v.messages =
                      get(conversations, tasks[t].call_sid) \o
                          <<message("user", tasks[t].v.user_text)>>
           /\ tasks[t].pc = "done" =>
                  /\ tasks[t].at_end = atomic(tasks[t]).state
                  /\ tasks[t].v.twiml = atomic(tasks[t]).result.twiml
           /\ (committed(tasks[t]) /\ \A u \in DOMAIN tasks : tasks[u].endpoint = "process")
                  => \E i \in DOMAIN conversations[tasks[t].call_sid] :
                         conversations[tasks[t].call_sid][i] =
                             message("user", tasks[t].v.user_text)

\* two turns of one call that both committed, the request of the second
\* having arrived while the first stood between its read and its commit; the
\* store holds both exchanges
C11_Witness ==
    \E t1, t2 \in DOMAIN tasks :
        /\ t1 # t2
        /\ committed(tasks[t1]) /\ committed(tasks[t2])
        /\ tasks[t1].call_sid = tasks[t2].call_sid
        /\ t1 < t2
        /\ tasks[t2].arrived_at = "turn_between_read_and_commit"
        /\ tasks[t1].v.user_text # tasks[t2].v.user_text
        /\ conversations[tasks[t1].call_sid] =
               <<message("user", tasks[t1].v.user_text),
                 message("assistant", tasks[t1].v.ai_response),
                 message("user", tasks[t2].v.user_text),
                 message("assistant", tasks[t2].v.ai_response)>>

\* the tasks inside JSONLogger.log_event
in_log_event == {t \in DOMAIN tasks : tasks[t].sub \in {"append", "save"}}

\* every rewrite of the file attempted so far was accepted by the file system
writes_accepted ==
    \A t \in DOMAIN tasks : tasks[t].disk = "ok" \/ pending(tasks[t])

is_prefix(p, q) == Len(p) <= Len(q) /\ SubSeq(q, 1, Len(p)) = p

\* C12 as stated: the append and the rewrite of one log_event are open to the
\* log_event calls of concurrent turns, so that while one log_event stands
\* between its append and its rewrite the handler of another request that
\* has not returned can take a step.
C12_LogEventsInterleave ==
    \A t1, t2 \in DOMAIN tasks :
        (t1 # t2 /\ tasks[t1].sub = "save" /\ tasks[t2].pc # "done")
        => ENABLED (Block(t2) \/ LogAppend(t2) \/ LogSave(t2))

\* C12 as amended: the log_event calls of overlapping requests do not
\* interleave.  At most one log_event is in progress; the event it appended
\* is the last one in memory when it rewrites the file; the persisted array
\* is never anything but a prefix of the in-memory sequence (or the remains
\* of a refused write); and it equals the in-memory sequence whenever no
\* log_event is in progress and no rewrite was refused.
C12_LogEventsSerialized ==
    /\ Cardinality(in_log_event) <= 1
    /\ \A t \in DOMAIN tasks :
           tasks[t].sub = "save" => logs[Len(logs)] = tasks[t].entry
    /\ log_file = PARTIAL \/ (log_file.json /\ is_prefix(log_file.records, logs))
    /\ (in_log_event = {} /\ writes_accepted) => log_file = json_file(logs)

\* a request arrived while the log_event of another stood between its append
\* and its rewrite; both handlers returned, each having logged, and the file
\* holds every event
C12_Witness ==
    \E t1, t2 \in DOMAIN tasks :
        /\ t1 # t2
        /\ t1 < t2
        /\ tasks[t2].arrived_at = "log_event_between_append_and_rewrite"
        /\ tasks[t1].pc = "done" /\ tasks[t2].pc = "done"
        /\ \E i, j \in DOMAIN logs :
               i < j /\ logs[i] = tasks[t1].entry /\ logs[j] = tasks[t2].entry
        /\ writes_accepted
        /\ log_file = json_file(logs)

\* every step leaves the records in memory where they are and adds at most
\* one, at the end
C13_AppendOnly ==
    [][/\ is_prefix(logs, logs')
       /\ Len(logs') <= Len(logs) + 1]_vars

\* outside log_event the file holds the JSON array of the records in memory
C13_WriteThrough == in_log_event = {} => log_file = json_file(logs)

\* C13: the event log is append-only and write-through: each log_event leaves
\* the earlier records unchanged and in order, adds exactly one record at the
\* end, and when it returns the persisted array equals the in-memory sequence.
C13_AppendOnlyWriteThrough == C13_AppendOnly /\ []C13_WriteThrough

\* the step of task t from `from` to `to` inside log_event
log_step(t, from, to) ==
    t \in DOMAIN tasks /\ tasks[t].sub = from /\ tasks'[t].sub = to

\* C13 as amended: the event log is append-only and written through on every
\* event.  The append of a log_event adds its one record at the end and leaves
\* the earlier records and the file as they are; its rewrite leaves the
\* records in memory as they are and makes the persisted array equal to them,
\* unless the file system refuses the write: then log_event returns all the
\* same, the record stays in memory, and the file is left as it was (open
\* refused) or truncated (write refused).  No other step touches either.
C13_WriteThroughUnlessRefused ==
    [][/\ \A t \in 1 .. MaxTasks :
              /\ log_step(t, "append", "save") =>
                     logs' = Append(logs, tasks[t].entry) /\ log_file' = log_file
              /\ log_step(t, "save", "code") =>
                     /\ logs' = logs
                     /\ log_file' = IF tasks[t].disk = "ok" THEN json_file(logs)
                                    ELSE IF tasks[t].disk = "open_fails" THEN log_file
                                    ELSE PARTIAL
       /\ (logs' # logs \/ log_file' # log_file) =>
              \E t \in 1 .. MaxTasks :
                  log_step(t, "append", "save") \/ log_step(t, "save", "code")]_vars

\* two handlers have returned, one whose writes were accepted after one whose
\* writes were refused; the file holds every record again
C13_Witness ==
    \E t1, t2 \in DOMAIN tasks :
        /\ t1 # t2
        /\ tasks[t1].pc = "done" /\ tasks[t1].disk = "write_fails"
        /\ tasks[t1].at_end.log_file = PARTIAL
        /\ tasks[t2].pc = "done" /\ tasks[t2].disk = "ok"
        /\ tasks[t2].at_start.log_file = PARTIAL
        /\ Len(logs) > Len(tasks[t2].at_start.logs)
        /\ log_file = json_file(logs)

\* ------------------------------------------ claims on the collaborators

\* what get_llm_response did in the last turn, and str(e) of what the
\* completion service raised in it
gateway_result == get_llm_response(result.llm_requests[1], result.llm)
underlying_error ==
    IF result.llm.kind = "raise" THEN result.llm.error ELSE NONE_HAS_NO_STRIP

\* the last request was a turn of backend/main.py that called the gateway
gateway_turn == service = "backend" /\ validated_turn

\* C14: the completion gateway either returns reply text or raises one of the
\* two failure kinds, and the text it returns on success is never empty,
\* whatever the completion service answers (an empty or whitespace-only
\* message included).
C14_GatewayNeverEmpty ==
    gateway_turn =>
        \/ /\ gateway_result.kind = "return"
           /\ gateway_result.text # << >>
           /\ result.text = gateway_result.text
        \/ /\ gateway_result.kind = "raise"
           /\ result.llm.kind # "completion"

\* the event of the last turn with the given step label
turn_event(step) ==
    turn_events[CHOOSE i \in DOMAIN turn_events : turn_events[i].step = step]

\* the branches of process_speech after a failed completion
timeout_branch(error) ==
    /\ "llm_timeout" \in turn_steps /\ "llm_error" \notin turn_steps
    /\ turn_event("llm_timeout").data.error = error
    /\ result.text = TIMEOUT_APOLOGY
error_branch(error) ==
    /\ "llm_error" \in turn_steps /\ "llm_timeout" \notin turn_steps
    /\ turn_event("llm_error").data.error = error
    /\ result.text = ERROR_APOLOGY_PREFIX \o error

\* the last request was a turn of backend/main.py whose completion failed
gateway_failed == gateway_turn /\ result.llm.kind # "completion"

\* C15 as stated: an error whose description contains timeout, timed out or
\* connection (case-insensitively) is reported as TimeoutFailure and the
\* pipeline takes its timeout branch; every other error is reported as
\* CompletionFailure carrying the underlying message and the pipeline takes
\* its generic-error branch.
C15_ClassifiedByDescription ==
    gateway_failed =>
        IF is_timeout(lower(underlying_error))
        THEN /\ gateway_result.type = "TimeoutError"
             /\ timeout_branch(TIMEOUT_ERROR_PREFIX \o underlying_error)
        ELSE /\ gateway_result.error = underlying_error
             /\ error_branch(underlying_error)

\* C15 as amended: as stated, except that an error whose description has none
\* of the three words is re-raised as it is, so that the pipeline takes its
\* generic-error branch for it unless the error is itself a TimeoutError: for
\* that one it takes the timeout branch, with the underlying message.
C15_ClassifiedByDescriptionOrClass ==
    gateway_failed =>
        IF is_timeout(lower(underlying_error))
        THEN /\ gateway_result.type = "TimeoutError"
             /\ timeout_branch(TIMEOUT_ERROR_PREFIX \o underlying_error)
        ELSE /\ gateway_result.error = underlying_error
             /\ IF result.llm.kind = "raise" /\ result.llm.type = "TimeoutError"
                THEN timeout_branch(underlying_error)
                ELSE /\ error_branch(underlying_error)
                     /\ turn_event("llm_error").data.error_type = gateway_result.type

\* an error that reads TIMEOUT in capitals took the timeout branch
C15_Witness ==
    /\ gateway_failed
    /\ result.llm = LLM_GATEWAY_TIMEOUT
    /\ timeout_branch(TIMEOUT_ERROR_PREFIX \o underlying_error)

Reprompts == {"reprompt_no_speech", "reprompt_stt_failure"}

\* C16: the completion service is attempted exactly once in a turn that passes
\* validation, also when the attempt fails, and not at all in a turn that
\* returns a reprompt.
C16_SingleAttempt ==
    is_turn =>
        IF result.directive \in Reprompts
        THEN result.llm_requests = << >> /\ result.llm.kind = "not_called"
        ELSE /\ Len(result.llm_requests) = 1
             /\ result.llm.kind # "not_called"
             /\ count({"llm_response", "llm_timeout", "llm_error"}) <= 1

\* a turn whose one attempt failed
C16_Witness ==
    /\ validated_turn
    /\ result.llm.kind = "raise"
    /\ Len(result.llm_requests) = 1
    /\ service = "backend" /\ "llm_timeout" \in turn_steps

\* the files the synthesis of the last turn names
turn_mp3 == {path(request.call_sid, x, "mp3") : x \in Suffixes}
turn_wav == {path(request.call_sid, x, "wav") : x \in Suffixes}

\* C17: the speech synthesis adapter never raises: when the synthesis or the
\* transcoding fails (the latter after the intermediate file was written) it
\* returns null, and it returns an audio reference only when both succeeded.
C17_SynthesisNeverRaises ==
    gateway_turn =>
        /\ result.status = "returned"
        /\ Len(result.tts_returns) = 1
        /\ result.tts_returns[1] # NoPath <=> result.tts = "ok"
        /\ result.tts_returns[1] # NoPath =>
               /\ result.tts_returns[1] \in turn_wav \cap audio_files
               /\ turn_mp3 \cap audio_files # {}
        /\ result.tts = "transcode_fails" => turn_mp3 \cap audio_files # {}

\* the transcoding failed after the mp3 was written: null came back, the turn
\* returned and said the text
C17_Witness ==
    /\ gateway_turn
    /\ result.tts = "transcode_fails"
    /\ result.tts_returns = <<NoPath>>
    /\ turn_mp3 \cap audio_files # {}
    /\ turn_wav \cap audio_files = {}
    /\ result.status = "returned"
    /\ result.directive = "speak_text_fallback"

\* the last turn again, from the state it started in, with the completion
\* service raising the same class of error with another text
turn_raising(error) ==
    LET s == state(before, SubSeq(logs, 1, logs_before), log_file, audio_files, "ok")
        llm == raises(result.llm.type, error)
        x == CHOOSE x \in Suffixes : TRUE
    IN  IF service = "backend"
        THEN process_speech(s, request.call_sid, request.SpeechResult, llm, x,
                            result.tts).result
        ELSE vce_process_speech(s, request.call_sid, request.SpeechResult, llm, x,
                                result.tts).result

ErrorTexts ==
    {LLM_TIMED_OUT.error, LLM_CONNECTION.error, LLM_GATEWAY_TIMEOUT.error,
     LLM_DEADLINE.error, LLM_RATE.error, <<"4", "0", "1">>}

\* C18: when the completion fails the caller hears a fixed apology and the
\* failure shows only in the event log: a turn that differs from the last one
\* only in the text of the error (an error of the same class, read alike as a
\* timeout or not) gives the same reply text and the same directive.
C18_ErrorTextNotDisclosed ==
    (is_turn /\ result.llm.kind = "raise") =>
        \A error \in ErrorTexts :
            is_timeout(lower(error)) = is_timeout(lower(result.llm.error)) =>
                /\ turn_raising(error).text = result.text
                /\ turn_raising(error).directive = result.directive

\* ---------------------------------------------- claims on the event log

\* the last turn appended an event for its call with the given step label
\* whose data has the given fields
logged(steps, fields) ==
    \E i \in DOMAIN turn_events :
        /\ turn_events[i].call_sid = request.call_sid
        /\ turn_events[i].step \in steps
        /\ fields \subseteq DOMAIN turn_events[i].data

\* the last turn logged its raw input, or the length of it
input_logged(steps) ==
    \E i \in DOMAIN turn_events :
        /\ turn_events[i].call_sid = request.call_sid
        /\ turn_events[i].step \in steps
        /\ LET data == turn_events[i].data
           IN  \/ /\ "speech_result_length" \in DOMAIN data
                  /\ data.speech_result_length = Len(request.SpeechResult)
               \/ /\ "speech_result" \in DOMAIN data
                  /\ data.speech_result = request.SpeechResult

\* C19: every recovered error of a turn (no speech, recognition failure,
\* completion timeout or error, synthesis failure) appends an event for the
\* call that names the error and carries its context: the raw input or its
\* length for an input error, the error text and the turn number for a
\* completion or synthesis error.
C19_RecoveredErrorsLogged ==
    is_turn =>
        /\ result.directive = "reprompt_no_speech" =>
               /\ logged({"no_speech_detected"}, {"error"})
               /\ input_logged({"no_speech_detected"})
        /\ result.directive = "reprompt_stt_failure" =>
               /\ logged({"stt_failure"}, {"error"})
               /\ input_logged({"stt_failure"})
        /\ (validated_turn /\ result.llm.kind # "completion") =>
               logged({"llm_timeout", "llm_error"}, {"error", "turn_number"})
        /\ (validated_turn /\ result.tts # "ok") =>
               logged({"tts_error"}, {"error", "turn_number"})

\* C19 as backend/main.py alone satisfies it
C19_Backend == service = "backend" => C19_RecoveredErrorsLogged

\* ------------------------------------------------ claims on the store

\* the last request changed the stored history of call c, or created it
altered(c) ==
    \/ (c \in DOMAIN conversations) # (c \in DOMAIN before)
    \/ c \in DOMAIN conversations \cap DOMAIN before
           /\ conversations[c] # before[c]

\* C20: a call's history is created by the first inbound-call event for its
\* identifier and afterwards changed only by the commit of a turn of that
\* call whose completion succeeded: a later inbound-call event for the same
\* identifier, a reprompt, a turn whose completion failed and a turn of
\* another call leave it as it was.
C20_HistoryFrame ==
    \A c \in CallSids :
        altered(c) =>
            \/ /\ request.endpoint = "incoming" /\ request.call_sid = c
               /\ c \notin DOMAIN before
               /\ conversations[c] = <<persona>>
            \/ /\ completion_succeeded /\ request.call_sid = c
               /\ c \in DOMAIN conversations

\* C20 for every request but an inbound-call event
C20_TurnsFrame ==
    is_turn => C20_HistoryFrame

\* ------------------------------------------------ claims on the chat

\* the last request was a chat turn of backend/main.py
chat_turn == service = "backend" /\ request.endpoint = "chat"

\* C21: a chat turn is stateless: it sends [persona, user message] to the
\* completion gateway once, appends one event (a response event on success,
\* an error event on any failure, a timeout included), returns the reply text
\* or the error string, synthesizes nothing and leaves the conversation store
\* as it was.
C21_ChatStateless ==
    chat_turn =>
        /\ result.llm_requests =
               << <<persona, message("user", request.message)>> >>
        /\ Len(turn_events) = 1
        /\ turn_events[1].event_type = "chat"
        /\ IF gateway_result.kind = "return"
           THEN /\ turn_events[1].step \in {"llm_response", "llm_response_get"}
                /\ result.body.status = "success"
                /\ result.body.response = gateway_result.text
           ELSE /\ turn_events[1].step \in {"llm_error", "llm_error_get"}
                /\ result.body.status = "error"
                /\ result.body.error = gateway_result.error
                /\ turn_events[1].data.error = gateway_result.error
        /\ result.tts_requests = << >>
        /\ result.status = "returned"
        /\ conversations = before

\* a chat turn whose completion timed out, while a call has a history of
\* more than the persona
C21_Witness ==
    /\ chat_turn
    /\ result.llm = LLM_TIMED_OUT
    /\ result.body.status = "error"
    /\ "CA1" \in DOMAIN conversations
    /\ Len(conversations["CA1"]) > 1
    /\ conversations = before

\* C22: every event a turn appends (no_speech_detected, stt_failure, the
\* transcript, completion, synthesis and complete events) carries a duration
\* that is not null.
C22_TurnEventsTimed ==
    is_turn =>
        /\ turn_events # << >>
        /\ \A i \in DOMAIN turn_events :
               /\ turn_events[i].duration_seconds # None
               /\ turn_events[i].duration_seconds = SECONDS

\* a turn that went through all its stages, after an inbound-call event
\* whose own event has no duration
C22_Witness ==
    /\ validated_turn
    /\ service = "backend"
    /\ {"speech_to_text", "llm_response", "tts_error", "complete"} \subseteq turn_steps
    /\ \E i \in 1 .. logs_before :
           logs[i].step = "call_received" /\ logs[i].duration_seconds = None

\* the last request appended to the log of a process that had loaded events
\* of earlier runs
logged_after_restart ==
    /\ request.endpoint = "process"
    /\ Len(logs) > logs_before
    /\ loaded # << >>

C24_SamePipeline ==
    request.endpoint \in {"incoming", "process"} =>
        /\ twin.conversations = conversations
        /\ twin.directive = result.directive

\* C24 as long as no transcript was a recognition sentinel
C24_BarSentinels ==
    (/\ \A i \in 1 .. Len(logs) : logs[i].step # "stt_failure"
     /\ \A i \in 1 .. Len(twin.logs) : twin.logs[i].step # "stt_failure")
        => C24_SamePipeline

\* ------------------------------------------ claims on the credentials

posted == request.endpoint = "set_credentials"
queried == request.endpoint = "get_credentials"

\* C25: credentials are stored only when validation succeeds: a POST that
\* answers with status error (format error, provider rejection, phone number
\* not found, any exception) leaves account_sid, auth_token, phone_number and
\* ui_set as they were, and a POST that answers success has stored the three
\* values and set ui_set.
C25_StoredOnlyWhenValidated ==
    posted =>
        /\ result.status = "returned"
        /\ IF result.body.status = "success"
           THEN /\ TWILIO_CREDENTIALS =
                       [account_sid |-> request.account_sid,
                        auth_token |-> request.auth_token,
                        phone_number |-> request.phone_number, ui_set |-> TRUE]
                /\ validate_twilio_credentials(request.account_sid, request.auth_token,
                                               request.phone_number).is_valid
           ELSE /\ result.body.status = "error"
                /\ TWILIO_CREDENTIALS = request.credentials

\* a POST that the provider rejected after an earlier POST had succeeded with
\* another token
C25_Witness ==
    /\ posted
    /\ result.body.status = "error"
    /\ validate_twilio_credentials(request.account_sid, request.auth_token,
                                   request.phone_number).is_valid
    /\ request.credentials.ui_set
    /\ request.auth_token # request.credentials.auth_token
    /\ TWILIO_CREDENTIALS = request.credentials

\* the tokens a state that differs from this one only in the token can hold:
\* any token of the environment while nothing was stored, a token that
\* passed validation afterwards
other_tokens ==
    {token \in {<< >>, TOKEN_ENV, TOKEN_A, TOKEN_B, TOKEN_SHORT} :
        TWILIO_CREDENTIALS.ui_set => Len(token) >= MIN_TOKEN_LENGTH}

\* the texts of a status response
texts_of(body) ==
    {body.phone_number, body.account_sid_preview}
        \cup (IF body.configured.type = "str" THEN {body.configured.value} ELSE {})

\* C26: in every reachable credential state the answer of the status query
\* does not contain the auth token: two states that differ only in the
\* stored token give identical answers.
C26_TokenNotDisclosed ==
    /\ \A token \in other_tokens :
           get_twilio_credentials([TWILIO_CREDENTIALS EXCEPT !.auth_token = token])
               = get_twilio_credentials(TWILIO_CREDENTIALS)
    /\ queried =>
           /\ result.body = get_twilio_credentials(TWILIO_CREDENTIALS)
           /\ DOMAIN result.body =
                  {"status", "configured", "phone_number", "account_sid_preview"}
           /\ TWILIO_CREDENTIALS.auth_token # << >> =>
                  \A text \in texts_of(result.body) :
                      ~contains(text, TWILIO_CREDENTIALS.auth_token)

\* a status query answered after a POST stored a token
C26_Witness ==
    /\ queried
    /\ TWILIO_CREDENTIALS.ui_set
    /\ TWILIO_CREDENTIALS.auth_token = TOKEN_B
    /\ truthy(result.body.configured)
    /\ result.body.phone_number = PHONE_OK

\* a successful credentials POST was logged by this process
stored_here ==
    \E i \in Len(loaded) + 1 .. Len(logs) :
        logs[i].step = "credentials_validated_and_set"

\* C27: the configured field of the status query is the boolean true exactly
\* when credentials were stored through a successful POST in this process,
\* and false otherwise, also when credentials come from the environment only.
C27_ConfiguredIsBoolean ==
    queried =>
        /\ result.body.configured.type = "bool"
        /\ result.body.configured.value = stored_here

\* C27 for the truth value of the field, whatever its type
C27_ConfiguredIsTruthy ==
    queried => (truthy(result.body.configured) <=> stored_here)

\* ------------------------------------------------ claims on the turns

\* the history the last turn read
history_read == get(before, request.call_sid)

\* C28: the turn number of a turn is the length of the history read before
\* the completion call, minus 1, and the transcript, completion, synthesis
\* and complete events of the turn all carry that value, although a
\* successful commit changes the length of the history in between.
C28_OneTurnNumber ==
    gateway_turn =>
        /\ Len(turn_events) = 4
        /\ Len(result.llm_requests[1]) = Len(history_read) + 1
        /\ \A i \in DOMAIN turn_events :
               /\ "turn_number" \in DOMAIN turn_events[i].data
               /\ turn_events[i].data.turn_number = Len(history_read) - 1

\* a turn whose commit made the history longer than it was when read
C28_Witness ==
    /\ gateway_turn
    /\ completion_succeeded
    /\ Len(history_read) = 3
    /\ Len(get(conversations, request.call_sid)) = 5
    /\ turn_event("complete").data.turn_number = 2

\* the requests served, as backend/main.py logs them
request_log == IF service = "backend" THEN logs ELSE twin.logs

\* the inbound-call events for c, and the commits since the last of them
greetings(c) ==
    {i \in DOMAIN request_log :
        request_log[i].step = "call_received" /\ request_log[i].call_sid = c}
commits_since_greeting(c) ==
    Cardinality({i \in DOMAIN request_log :
        /\ request_log[i].step = "llm_response" /\ request_log[i].call_sid = c
        /\ \A g \in greetings(c) : g < i})

system_messages(history) == {i \in DOMAIN history : history[i].role = "system"}

\* the commit number k leaves more than the window holds: 1 + 2k messages
exceeds_window(k) == 1 + 2 * k > CONVERSATION_HISTORY_LIMIT

\* C29: truncation keeps the latest entries and does not pin the persona: a
\* call greeted by an inbound-call event has a history that begins with the
\* persona until the first commit that exceeds the window, the fifth, and
\* from then on no system message at all, until the next inbound-call event
\* for it.
C29_PersonaEvicted ==
    /\ exceeds_window(5) /\ ~exceeds_window(4)
    /\ \A c \in DOMAIN conversations :
           greetings(c) # {} =>
               IF exceeds_window(commits_since_greeting(c))
               THEN system_messages(conversations[c]) = {}
               ELSE /\ system_messages(conversations[c]) = {1}
                    /\ conversations[c][1] = persona

\* the fifth commit since the greeting dropped the persona
C29_Witness ==
    /\ completion_succeeded
    /\ greetings("CA1") # {}
    /\ commits_since_greeting("CA1") = 5
    /\ before["CA1"][1] = persona
    /\ system_messages(conversations["CA1"]) = {}
    /\ Len(conversations["CA1"]) = CONVERSATION_HISTORY_LIMIT

\* C30: on every validated turn the messages sent to the completion service
\* are the stored history followed by one user message holding the trimmed
\* transcript; they are built on a copy, so the stored history is as it was
\* unless the completion succeeds, and they are at most limit + 1.
C30_RequestIsHistoryPlusUser ==
    validated_turn =>
        /\ result.llm_requests =
               <<history_read \o <<message("user", strip(request.SpeechResult))>> >>
        /\ Len(result.llm_requests[1]) <= CONVERSATION_HISTORY_LIMIT + 1
        /\ result.llm.kind # "completion" => conversations = before
        /\ \A c \in DOMAIN conversations :
               c # request.call_sid => conversations[c] = get(before, c)

\* a request of limit + 1 messages whose completion failed: the store holds
\* the history as it was
C30_Witness ==
    /\ validated_turn
    /\ Len(result.llm_requests[1]) = CONVERSATION_HISTORY_LIMIT + 1
    /\ result.llm.kind = "raise"
    /\ conversations = before
    /\ Len(history_read) = CONVERSATION_HISTORY_LIMIT

\* ---------------------------------------------- claims on the turn's order

\* the events task has logged so far: the loop runs one handler at a time, so
\* they are the records appended since the task began
emitted(task) ==
    IF pending(task) THEN << >>
    ELSE SubSeq(logs, Len(task.at_start.logs) + 1,
                IF task.pc = "done" THEN Len(task.at_end.logs) ELSE Len(logs))

steps_of(task) == [i \in DOMAIN emitted(task) |-> emitted(task)[i].step]

\* the history of the task's call as the task left it, or as it stands
history_after(task) ==
    get(IF task.pc = "done" THEN task.at_end.conversations ELSE conversations,
        task.call_sid)

\* how far a turn has come: get_llm_response has returned or raised, the
\* exchange is stored, generate_tts_audio has returned
completion_called(task) == task.v.r # not_called
history_committed(task) ==
    /\ ~pending(task)
    /\ history_after(task) # get(task.at_start.conversations, task.call_sid)
synthesis_called(task) ==
    \/ task.pc \in {"respond", "return"}
    \/ task.pc = "synthesize" /\ task.sub # "code"
    \/ task.pc = "done" /\ task.next = "return"

CompletionSteps == {"llm_response", "llm_timeout", "llm_error"}
SynthesisSteps == {"text_to_speech", "tts_error"}
RepromptSteps == {"no_speech_detected", "stt_failure"}

\* the events of a validated turn, as far as they go
in_order(steps) ==
    /\ Len(steps) <= 4
    /\ Len(steps) >= 1 => steps[1] = "speech_to_text"
    /\ Len(steps) >= 2 => steps[2] \in CompletionSteps
    /\ Len(steps) >= 3 => steps[3] \in SynthesisSteps
    /\ Len(steps) >= 4 => steps[4] = "complete"

passes_validation(task) ==
    ~no_speech_detected(task.SpeechResult) /\ ~stt_failure_detected(task.SpeechResult)

backend_turns ==
    {t \in DOMAIN tasks : service = "backend" /\ tasks[t].endpoint = "process"}

\* C31: within one validated turn the steps occur in the order transcript
\* event, completion call, history commit (on success only), completion
\* event, synthesis call, synthesis event, complete event; the complete event
\* is the last event of the turn; a reprompt path ends after its single event,
\* which is not a complete event, having called and stored nothing.
C31_TurnOrder ==
    \A t \in backend_turns :
        LET task == tasks[t]
            steps == steps_of(task)
        IN  IF passes_validation(task)
            THEN /\ in_order(steps)
                 /\ completion_called(task) => Len(steps) >= 1
                 /\ history_committed(task) =>
                        completion_called(task) /\ task.v.r.kind = "return"
                 /\ Len(steps) >= 2 =>
                        /\ completion_called(task)
                        /\ task.v.r.kind = "return" <=> history_committed(task)
                        /\ task.v.r.kind = "return" <=> steps[2] = "llm_response"
                 /\ synthesis_called(task) => Len(steps) >= 2
                 /\ Len(steps) >= 3 => synthesis_called(task)
                 /\ task.pc = "done" => Len(steps) = 4
            ELSE /\ Len(steps) <= 1
                 /\ \A i \in DOMAIN steps : steps[i] \in RepromptSteps
                 /\ task.pc = "done" => Len(steps) = 1
                 /\ ~completion_called(task)
                 /\ ~history_committed(task)
                 /\ ~synthesis_called(task)

\* a validated turn that committed and a reprompt have both run to their end
C31_Witness ==
    \E t1, t2 \in backend_turns :
        /\ tasks[t1].pc = "done" /\ passes_validation(tasks[t1])
        /\ history_committed(tasks[t1])
        /\ steps_of(tasks[t1])[4] = "complete"
        /\ tasks[t2].pc = "done" /\ ~passes_validation(tasks[t2])
        /\ steps_of(tasks[t2]) = <<"stt_failure">>

\* ------------------------------------------- claims on the gathered turn

\* call identifiers as the texts they are: one as the provider assigns them,
\* three that hold a character the query string of a URL reserves, and one
\* that holds the separator of a path
ID_PLAIN == <<"C", "A", "1">>
ID_AMPERSAND == <<"C", "A", "1", "&", "x">>
ID_PLUS == <<"C", "A", "+", "1">>
ID_FRAGMENT == <<"C", "A", "#", "1">>
ID_SLASH == <<"C", "A", "/", "1">>
Identifiers == {ID_PLAIN, ID_AMPERSAND, ID_PLUS, ID_FRAGMENT, ID_SLASH}

\* call_sid: str = Query(...) of a request to the action of a Gather, which is
\* f"/api/voice/process?call_sid={call_sid}": the interpolated text as the
\* query string gives it back, ended by the first & or #, its + read as a
\* space (percent escapes, decoded as well, are not among the inputs)
query_call_sid(action) ==
    LET stops == {i \in DOMAIN action : action[i] \in {"&", "#"}}
        end == IF stops = {} THEN Len(action)
               ELSE (CHOOSE i \in stops : \A j \in stops : i <= j) - 1
    IN  [i \in 1 .. end |-> IF action[i] = "+" THEN " " ELSE action[i]]

gathers(twiml) == {i \in DOMAIN twiml : twiml[i].verb = "Gather"}
hangups(twiml) == {i \in DOMAIN twiml : twiml[i].verb = "Hangup"}

\* the last request was one of a call and its handler returned TwiML
answered ==
    request.endpoint \in {"incoming", "process"} /\ result.status = "returned"

\* the provider follows the Gather of the last response with the next speech
Follow(SpeechResult, llm, suffix, tts) ==
    /\ answered
    /\ \E i \in gathers(result.twiml) :
           ProcessSpeech(query_call_sid(result.twiml[i].action), SpeechResult,
                         llm, suffix, tts, "ok")

\* f"{AUDIO_DIR}/output/", the text before the file name
OUTPUT_DIR == <<"audio_files", "/", "output", "/">>

\* the text of a path of generate_tts_audio:
\* f"{AUDIO_DIR}/output/tts_{call_sid}_{os.urandom(4).hex()}.mp3", or .wav
file_path(p) == OUTPUT_DIR \o <<"tts_">> \o p[2] \o <<"_", p[3], ".", p[4]>>

\* os.path.basename: what follows the last separator
os_path_basename(text) ==
    LET slashes == {i \in DOMAIN text : text[i] = "/"}
    IN  IF slashes = {} THEN text
        ELSE SubSeq(text, (CHOOSE i \in slashes : \A j \in slashes : j <= i) + 1,
                    Len(text))

\* the file name in the audio reference of a response: os.path.basename(wav_path)
tts_filename(wav_path) == os_path_basename(file_path(wav_path))

\* the directories os.makedirs(os.path.dirname(mp3_path), exist_ok=True) has made
directories(files) ==
    UNION {{SubSeq(file_path(p), 1, i - 1) :
               i \in {j \in DOMAIN file_path(p) : file_path(p)[j] = "/"}} : p \in files}

\* GET /api/voice/audio/{filename}: the file if the path exists, or else 404;
\* a path that exists and is a directory is handed to FileResponse as well
serve_audio(files, filename) ==
    LET audio_path == OUTPUT_DIR \o filename
    IN  IF audio_path \in {file_path(p) : p \in files}
        THEN [status |-> "audio", audio_path |-> audio_path]
        ELSE IF audio_path \in directories(files)
        THEN [status |-> "not_a_file", audio_path |-> audio_path]
        ELSE [status |-> "not_found", audio_path |-> NoPath]

\* file names to ask for: those of the references a turn can return, one that
\* no synthesis writes, and the name of a directory
NEVER_WRITTEN == <<"tts_", "C", "A", "9", "_", "0a1b2c3d", ".", "wav">>
Filenames ==
    {tts_filename(path(c, x, "wav")) : c \in Identifiers, x \in Suffixes}
        \cup {NEVER_WRITTEN, <<"tts_", "C", "A">>}

ServeAudio(filename) ==
    finish([endpoint |-> "audio", filename |-> filename],
           done(current("ok"), serve_audio(audio_files, filename)), twin)

\* calls whose identifiers are texts, each turn addressed as the Gather before it says
NextProvider ==
    \/ \E c \in Identifiers :
          served < MaxRequests + 1 /\ IncomingCall(c, "ok")
    \/ \E c \in Identifiers, sr \in {SR_EMPTY, SR_SENTINEL, SR_HI},
          t \in {"ok", "synthesis_fails"}, x \in Suffixes :
          served < 1 /\ ProcessSpeech(c, sr, LLM_OK, x, t, "ok")
    \/ \E sr \in {SR_EMPTY, SR_SENTINEL, SR_HI}, l \in {LLM_OK, LLM_TIMED_OUT},
          t \in {"ok", "synthesis_fails"}, x \in Suffixes :
          served < MaxRequests + 1 /\ Follow(sr, l, x, t)
    \/ \E f \in Filenames :
          served < MaxRequests + 1 /\ ServeAudio(f)

SpecProvider == Init /\ [][NextProvider]_vars

\* a hang-up is placed only after a gather
hangup_after_gather(twiml) ==
    \A h \in hangups(twiml) : \E g \in gathers(twiml) : g < h

\* C32: every response of the inbound-call handler and of a turn, on every
\* path, holds a gather whose action, as the provider requests it, addresses
\* the call identifier of the request, so that the next turn of the call is
\* processed against the same history key; a hang-up comes only after it.
C32_GatherSameCall ==
    answered =>
        /\ gathers(result.twiml) # {}
        /\ \A g \in gathers(result.twiml) :
               query_call_sid(result.twiml[g].action) = request.call_sid
        /\ hangup_after_gather(result.twiml)

\* what holds of every response: the gather is there, before any hang-up, and
\* addresses the identifier of the request when that holds no reserved character
C32_GatherSameUrlSafeCall ==
    answered =>
        /\ gathers(result.twiml) # {}
        /\ \A g \in gathers(result.twiml) :
               /\ result.twiml[g].action = request.call_sid
               /\ request.call_sid = ID_PLAIN =>
                      query_call_sid(result.twiml[g].action) = request.call_sid
        /\ hangup_after_gather(result.twiml)

\* ------------------------------------------------ claims on the store's keys

\* C33: the conversation store never loses a key: a call identifier that has
\* a stored history, through an inbound-call event or a commit, has one after
\* every later request, whatever the request is.
C33_KeysKept ==
    [][DOMAIN conversations \subseteq DOMAIN conversations']_vars

\* a call that was stored by an earlier request is still stored after a
\* request that stored another: one by its inbound-call event, one by a commit
C33_Witness ==
    /\ Cardinality(DOMAIN before) = 1
    /\ Cardinality(DOMAIN conversations) = 2
    /\ \E c \in DOMAIN conversations : conversations[c][1].role = "user"
    /\ \E c \in DOMAIN conversations : conversations[c] = <<persona>>

\* --------------------------------------------- claims on the audio files

\* the audio references the turns have returned so far, as their events tell
returned_references ==
    {logs[i].data.audio_url : i \in {j \in DOMAIN logs : logs[j].step = "text_to_speech"}}

\* the file names synthesis has written
written == {os_path_basename(file_path(p)) : p \in audio_files}

\* C34: once a turn has returned play_audio with an audio reference, a request
\* to the audio-serving endpoint for that file name returns the audio and not
\* 404 at every later time; a file name that no synthesis ever produced
\* yields 404.
C34_ReferenceServed ==
    /\ \A r \in returned_references :
           serve_audio(audio_files, tts_filename(r)).status = "audio"
    /\ \A f \in Filenames \ written :
           serve_audio(audio_files, f).status = "not_found"

slash_free(text) == \A i \in DOMAIN text : text[i] # "/"

\* what holds: no request removes or renames a file, the reference of a call
\* whose identifier holds no path separator is served ever after, and a name
\* that is neither written nor the name of a directory made yields 404
C34_FilesKept ==
    [][audio_files \subseteq audio_files']_vars

C34_SlashFreeReferenceServed ==
    /\ \A r \in returned_references :
           slash_free(r[2]) =>
               serve_audio(audio_files, tts_filename(r)).status = "audio"
    /\ \A f \in Filenames \ written :
           OUTPUT_DIR \o f \notin directories(audio_files) =>
               serve_audio(audio_files, f).status = "not_found"

\* ----------------------------------------- claims on the commit's standing

\* the last request was a validated turn whose completion call returned a
\* reply and whose synthesis returned null
fallback_after_reply ==
    /\ validated_turn
    /\ gateway_result.kind = "return"
    /\ result.tts_returns = <<NoPath>>

\* C35: the history commit is not rolled back by what follows it: when the
\* completion succeeds and synthesis then returns null, the exchange (user
\* message and assistant reply) is in the stored history after the turn, and
\* the text of the speak_text_fallback directive equals the content of the
\* last stored assistant message.
C35_CommitStands ==
    fallback_after_reply =>
        LET h == get(conversations, request.call_sid)
        IN  /\ Len(h) >= 2
            /\ h[Len(h) - 1] = message("user", strip(request.SpeechResult))
            /\ h[Len(h)] = message("assistant", gateway_result.text)
            /\ h = truncate(get(before, request.call_sid) \o SubSeq(h, Len(h) - 1, Len(h)))
            /\ result.directive = "speak_text_fallback"
            /\ result.twiml[1] = Say(h[Len(h)].content)

\* a reply was stored and spoken by the provider's voice, the transcoder having failed
C35_Witness ==
    /\ fallback_after_reply
    /\ service = "backend"
    /\ result.tts = "transcode_fails"
    /\ get(before, request.call_sid) = <<persona>>
    /\ result.twiml[1] = Say(<<"O", "K">>)

\* ------------------------------------------- claims on the history's shape

\* the messages of a history after its system message, if it begins with one
after_persona(h) ==
    IF h # << >> /\ h[1].role = "system" THEN SubSeq(h, 2, Len(h)) ELSE h

\* a system message only in the first place, then user and assistant in
\* turn, and an assistant message last where there is more than one message
well_formed(h) ==
    /\ \A i \in DOMAIN h : h[i].role = "system" => i = 1
    /\ \A i \in DOMAIN after_persona(h) :
           after_persona(h)[i].role \in {"user", "assistant"}
    /\ \A i \in 1 .. (Len(after_persona(h)) - 1) :
           after_persona(h)[i].role # after_persona(h)[i + 1].role
    /\ Len(h) > 1 => h[Len(h)].role = "assistant"

\* C36: in every reachable state every stored history is well-formed: a
\* system message occurs only in the first place, the remaining messages
\* alternate strictly between the user and the assistant, and a history of
\* more than one message ends with an assistant message.
C36_HistoriesWellFormed ==
    \A c \in DOMAIN conversations : well_formed(conversations[c])

\* a commit has pushed the persona out of a full window: the history read
\* began with it, the one stored begins with a user message
C36_Witness ==
    /\ completion_succeeded
    /\ Len(get(before, request.call_sid)) = CONVERSATION_HISTORY_LIMIT - 1
    /\ get(before, request.call_sid)[1] = persona
    /\ Len(get(conversations, request.call_sid)) = CONVERSATION_HISTORY_LIMIT
    /\ get(conversations, request.call_sid)[1].role = "user"

\* the window being even and every commit adding a pair, what follows the
\* persona, or stands in its place after truncation, begins with a user message
C36_BeginsWithUser ==
    \A c \in DOMAIN conversations :
        after_persona(conversations[c]) # << >> =>
            after_persona(conversations[c])[1].role = "user"

\* --------------------------------------------- claims on the calls apart

MaxCalls == 5

\* two calls side by side, each with a transcript and a reply of its own
NextCalls ==
    \/ \E c \in CallSids :
          served < MaxCalls /\ IncomingCall(c, "ok")
    \/ \E x \in Suffixes :
          served < MaxCalls
              /\ ProcessSpeech("CA1", SR_HI, LLM_OK, x, "synthesis_fails", "ok")
    \/ \E l \in {LLM_NO, LLM_TIMED_OUT}, x \in Suffixes :
          served < MaxCalls
              /\ ProcessSpeech("CA2", SR_YES, l, x, "synthesis_fails", "ok")

SpecCalls == Init /\ [][NextCalls]_vars

\* the messages that come from the turns of call c: the transcripts of its
\* speech_to_text events and the replies of its llm_response events
own_messages(c) ==
    {message("user", request_log[i].data.transcribed_text) :
        i \in {j \in DOMAIN request_log :
                  request_log[j].step = "speech_to_text" /\ request_log[j].call_sid = c}}
    \cup
    {message("assistant", request_log[i].data.model_response_text) :
        i \in {j \in DOMAIN request_log :
                  request_log[j].step = "llm_response" /\ request_log[j].call_sid = c}}

\* C37: calls are isolated from each other: a turn or an inbound-call event
\* for call identifier A leaves the stored history of every other identifier
\* B as it was, and the completion request built for A holds, besides the
\* persona, only messages that come from A's own turns.
C37_CallsIsolated ==
    request.endpoint \in {"incoming", "process"} =>
        /\ \A b \in CallSids \ {request.call_sid} :
               /\ b \in DOMAIN conversations <=> b \in DOMAIN before
               /\ get(conversations, b) = get(before, b)
        /\ validated_turn =>
               \A i \in DOMAIN result.llm_requests[1] :
                   \/ result.llm_requests[1][i] = persona
                   \/ result.llm_requests[1][i] \in own_messages(request.call_sid)

\* a turn of one call after an exchange of its own and one of the other call
\* were stored: its request holds its own exchange, the other history stands
C37_Witness ==
    /\ validated_turn /\ request.call_sid = "CA1"
    /\ Len(result.llm_requests[1]) >= 3
    /\ get(before, "CA2") # << >>
    /\ last(get(before, "CA2"), 1) = <<message("assistant", <<"N", "o">>)>>
    /\ get(conversations, "CA2") = get(before, "CA2")

\* ------------------------------------------ claims on the refused write

MaxWrites == 4

\* json_logger.log_event(...) called once, the file system accepting or
\* refusing the write; the request keeps the entry, what the file system did
\* and the file as the call found it
LogEvent(entry, disk) ==
    LET s == log_event(current(disk), entry)
    IN  finish([endpoint |-> "log_event", entry |-> entry, disk |-> disk,
                log_file |-> log_file],
               done(s, [status |-> IF s.exc = None THEN "returned" ELSE "raised"]),
               twin)

\* log_event after log_event, each write accepted or refused
NextWrites ==
    \E c \in CallSids, d \in DiskOutcomes :
        served < MaxWrites /\ LogEvent(call_received_event(c), d)

SpecWrites == Init /\ [][NextWrites]_vars

\* C38: a failure to write the log file is swallowed by log_event: the call
\* does not raise, the new record stays in the in-memory sequence, and the
\* next save that succeeds persists every record appended since the last
\* successful save, so that the persisted array again equals the in-memory
\* sequence.
C38_WriteFailureSwallowed ==
    request.endpoint = "log_event" =>
        /\ result.status = "returned"
        /\ Len(logs) = logs_before + 1
        /\ logs[Len(logs)] = request.entry
        /\ request.disk = "ok" => log_file = json_file(logs)
        /\ request.disk = "open_fails" => log_file = request.log_file
        /\ request.disk = "write_fails" => log_file = PARTIAL

\* a save succeeded after two that were refused, the later of which left the
\* file truncated: the file holds all four records
C38_Witness ==
    /\ request.endpoint = "log_event"
    /\ request.disk = "ok"
    /\ request.log_file = PARTIAL
    /\ Len(logs) = 4
    /\ log_file = json_file(logs)
    /\ logs[1] # logs[2]

====
